---------------------------- MODULE Spec2Model ----------------------------
(***************************************************************************)
(* Module lifecycle and settings cache of re621 (RE6Module and its         *)
(* subclasses SmartAlias and ThumbnailEnhancer).                           *)
(*                                                                         *)
(* JavaScript values are modelled as strings ("true", "false", "1", ...;   *)
(* "undefined" for undefined).  A settings record is a function from a     *)
(* finite set of property names to values.  An optional record is <<>>     *)
(* (nothing there) or <<r>>.                                               *)
(*                                                                         *)
(* Every asynchronous method is a sequence of atomic steps separated by    *)
(* its awaits; the operations in flight are the elements of ops, and any   *)
(* of them may take its next step (single-threaded, cooperative).          *)
(***************************************************************************)
EXTENDS Integers, Sequences, FiniteSets, TLC

VARIABLES
    cls,          \* the concrete class of the module instance
    constraint,   \* this.constraint: sequence of patterns
    path,         \* Page.url.pathname, as a sequence of tokens
    initialized,  \* this.initialized
    enabled,      \* this.enabled ("undefined" until prepare() completes)
    settings,     \* this.settings: optional record (the in-memory cache)
    stored,       \* the record stored under "re621." + settingsTag, optional
    thumbAttr,    \* data-thumb-crop / -vote / -zoom of div#posts-container, optional
    ops,          \* asynchronous operations in flight, in the order issued
    last,         \* the call that returned (or promise that settled) in the last step
    hotkeys,      \* this.hotkeys: the bindings the module declared
    table,        \* the table of Hotkeys: key combination -> handler
    instance,     \* the static instance property each class owns (0: none)
    objects,      \* the instances constructed by getInstance: constructor.name of each
    listeners,    \* the handlers attached to document, in the order attached
    editLink,     \* the page has an element #post-edit-link
    tagInput,     \* the tag input of the page, optional: its tag and its id
    val,          \* $textarea.val(), as the sequence of its characters
    focused,      \* the tag input has the focus
    handlers,     \* the handlers attached to the tag input, in the order attached
    closures,     \* per pass of the loop of SmartAlias.create: its local variables
    oneShot,      \* the one-shot click handlers armed on #post-edit-link
    containers,   \* the <smart-alias> elements in the document
    rebuilds,     \* pending timeouts of 100 ms set by the edit-link handler
    guid,         \* one-shot handlers bound so far
    fires,        \* how often each one-shot handler has fired
    article,      \* the page has an article.post-preview
    zoomPaused,   \* ThumbnailEnhancer.zoomPaused
    thumbs,       \* per call of modifyThumbnail: prevent, dbclickTimer, the handlers
    pending,      \* pending timeouts of 200 ms set by the click handlers
    events,       \* the mouse events delivered to the thumbnail link so far
    navigated,    \* navigations to the post by a click on the link
    tabs          \* tabs opened by GM.openInTab

\* the tag input, the edit link and what SmartAlias attaches to them
alias == <<editLink, tagInput, val, focused, handlers, closures, oneShot,
           containers, rebuilds, guid, fires>>

\* the thumbnail and what ThumbnailEnhancer attaches to it
thumb == <<article, zoomPaused, thumbs, pending, events, navigated, tabs>>

dom == <<alias, thumb>>

vars == <<cls, constraint, path, initialized, enabled, settings, stored,
          thumbAttr, ops, last, hotkeys, table, instance, objects, listeners,
          alias, thumb>>

\* the state behind the static methods
statics == <<instance, objects, listeners>>

(***************************************************************************)
(* Bounds                                                                  *)
(***************************************************************************)
\* asynchronous operations of the module that may be in flight together
MaxInFlight == 2

\* bindings a module declares
MaxHotkeys == 2

\* handlers attached to document
MaxListeners == 3

\* calls of SmartAlias.create, made or scheduled, on a page without a tag
\* input, and on a page with one (the closures of its handlers)
MaxCreates == 4

MaxClosures == 2

\* calls of modifyThumbnail on the article of the page
MaxThumbs == 1

\* mouse events delivered to the thumbnail link
MaxEvents == 4

(***************************************************************************)
(* Values and records                                                      *)
(***************************************************************************)
Undefined == "undefined"

None == <<>>

Some(r) == <<r>>

EmptyRecord == [k \in {} |-> Undefined]

\* rec[k] in JavaScript: undefined when the property is absent
Get(rec, k) == IF k \in DOMAIN rec THEN rec[k] ELSE Undefined

\* (mutant) an assignment that keeps the value of a property already set
AssignKeepingOld(rec, property) ==
    [k \in (DOMAIN rec) \cup (DOMAIN property) |->
        IF k \in DOMAIN rec THEN rec[k] ELSE property[k]]

\* this.settings[key] = property[key] for every key of property
Assign(rec, property) ==
    [k \in (DOMAIN rec) \cup (DOMAIN property) |->
        IF k \in DOMAIN property THEN property[k] ELSE rec[k]]

Classes == {"RE6Module", "SmartAlias", "ThumbnailEnhancer"}

getDefaultSettings(c) ==
    CASE c = "SmartAlias" -> [enabled |-> "true", data |-> "{}"]
      [] c = "ThumbnailEnhancer" ->
            [enabled |-> "true", upscale |-> "hover", crop |-> "true",
             vote |-> "true", zoom |-> "true"]
      [] OTHER -> [enabled |-> "true"]

(***************************************************************************)
(* Page                                                                    *)
(***************************************************************************)
Digits == {"45"}

\* pathname.replace(/[\/?]$/g, "")
StripTrailing(p) ==
    IF Len(p) > 0 /\ p[Len(p)] \in {"/", "?"} THEN SubSeq(p, 1, Len(p) - 1) ELSE p

\* PageDefintion.search = /^$|^\/posts\/?$/
TestSearch(p) ==
    \/ p = <<>>
    \/ p = <<"/", "posts">>
    \/ p = <<"/", "posts", "/">>

\* PageDefintion.post = /^\/posts\/\d+\/?$/
TestPost(p) ==
    /\ Len(p) \in {4, 5}
    /\ SubSeq(p, 1, 3) = <<"/", "posts", "/">>
    /\ p[4] \in Digits
    /\ Len(p) = 5 => p[5] = "/"

\* PageDefintion.forum = /^\/forum_topics\/?.*/
TestForum(p) ==
    /\ Len(p) >= 2
    /\ SubSeq(p, 1, 2) = <<"/", "forum_topics">>

\* PageDefintion.upload, .popular and .favorites are defined in
\* components/data/Page; none of the paths of this model is one of their pages
TestOther(p) == FALSE

\* constraint.test(pathname)
Test(pattern, p) ==
    CASE pattern = "search" -> TestSearch(p)
      [] pattern = "post" -> TestPost(p)
      [] pattern = "forum" -> TestForum(p)
      [] OTHER -> TestOther(p)

\* (mutant) Page.matches with result = result && constraint.test(pathname)
PageMatchesEvery(filter, pathname) ==
    /\ Len(filter) > 0
    /\ \A i \in 1..Len(filter) : Test(filter[i], StripTrailing(pathname))

\* Page.matches(filter): result = result || constraint.test(pathname), over filter
PageMatches(filter, pathname) ==
    \E i \in 1..Len(filter) : Test(filter[i], StripTrailing(pathname))

\* the constructor's normalisation of its constraint argument
Constructor(arg) ==
    CASE arg.form = "undefined" -> <<>>
      [] arg.form = "regexp" -> <<arg.pats[1]>>
      [] OTHER -> arg.pats

\* the constraint each class hands to the constructor
ConstructorArgs(c) ==
    CASE c = "SmartAlias" -> {[form |-> "array", pats |-> <<"upload", "post", "search">>]}
      [] c = "ThumbnailEnhancer" ->
            {[form |-> "array", pats |-> <<"search", "popular", "favorites">>]}
      [] OTHER -> {[form |-> "undefined", pats |-> <<>>],
                   [form |-> "array", pats |-> <<"post">>]}

\* this.constraint.length == 0 || Page.matches(this.constraint)
pageMatchesFilter == Len(constraint) = 0 \/ PageMatches(constraint, path)

Paths == {<<"/", "posts">>, <<"/", "posts", "/", "45", "/">>, <<"/", "users">>}


(***************************************************************************)
(* XM.Storage: get with default, set, delete.  A set or delete may succeed, *)
(* resolve to a falsy value, or reject; a get may succeed or reject.        *)
(***************************************************************************)
WriteOutcomes == {"ok", "fail", "reject"}

\* XM.Storage.getValue(key, defaultValue)
StorageGetValue(st, defaultValue) == IF st = None THEN defaultValue ELSE st[1]

\* XM.Storage.setValue(key, value), by outcome
StorageSetValue(st, value, outcome) == IF outcome = "ok" THEN Some(value) ELSE st

\* XM.Storage.deleteValue(key), by outcome
StorageDeleteValue(st, outcome) == IF outcome = "ok" THEN None ELSE st

\* what the promise of a set or delete settles to
Settled(outcome) ==
    CASE outcome = "ok" -> "true"
      [] outcome = "fail" -> "false"
      [] OTHER -> "rejected"

(***************************************************************************)
(* Settings cache                                                          *)
(***************************************************************************)
\* (mutant) a backfill in which every default overwrites the stored value
BackfillOverwriting(defaultValues, result) ==
    [k \in (DOMAIN result) \cup (DOMAIN defaultValues) |->
        IF k \in DOMAIN defaultValues THEN defaultValues[k] ELSE result[k]]

\* the loop of loadSettingsValues: a default fills a property that is undefined
Backfill(defaultValues, result) ==
    [k \in (DOMAIN result) \cup (DOMAIN defaultValues) |->
        IF k \in DOMAIN defaultValues /\ Get(result, k) = Undefined
        THEN defaultValues[k]
        ELSE result[k]]

loadSettingsValues(c, st) ==
    LET defaultValues == getDefaultSettings(c)
        result == StorageGetValue(st, defaultValues)
    IN  Backfill(defaultValues, result)

\* fetchSettings(property) without fresh: a read of the cache
\* (a TypeError while this.settings is still undefined)
fetchSettings(cache, property) ==
    IF cache = None THEN "throws" ELSE Get(cache[1], property)

\* fetchSettings(property: string[]) without fresh:
\* result[entry] = this.settings[entry] for every entry
fetchSettingsArray(cache, property) ==
    IF cache = None /\ Len(property) > 0
    THEN "throws"
    ELSE [k \in {property[j] : j \in 1..Len(property)} |->
            IF cache = None THEN Undefined ELSE Get(cache[1], k)]

\* (mutant) canInitialize without the !this.initialized operand
canInitializeIgnoringInitialized ==
    IF ~pageMatchesFilter THEN "false" ELSE enabled

\* !this.initialized && this.pageMatchesFilter() && this.enabled
canInitialize ==
    IF initialized THEN "false"
    ELSE IF ~pageMatchesFilter THEN "false"
    ELSE enabled

isInitialized == initialized

isEnabled == enabled

(***************************************************************************)
(* Inputs                                                                  *)
(***************************************************************************)
\* the records (or the single property and value) given to pushSettings
PushArgs == {[a |-> "1"], [b |-> "2"], [enabled |-> "false"]}

\* the properties read by fetchSettings and fetchSettingsGently
FetchKeys == {"enabled", "a", "crop"}

\* what an earlier session may have left in storage
InitStored == {None, Some([enabled |-> "false"])}

\* the arrays of properties read by fetchSettings
FetchArrays == {<<>>, <<"a">>, <<"enabled", "a">>, <<"a", "a">>}

\* the records another context (another tab) writes under the module's key
OtherRecords == {[enabled |-> "false"], [enabled |-> "true", a |-> "9"]}

(***************************************************************************)
(* Hotkeys                                                                 *)
(***************************************************************************)
\* the table of Hotkeys before any registration
NoEntries == [k \in {} |-> "noop"]

\* Hotkeys.register(key, fnct, element, selector): overwrites the entry of key
HotkeysRegister(t, key, fnct) ==
    [k \in (DOMAIN t) \cup {key} |-> IF k = key THEN fnct ELSE t[k]]

\* str.split("|") of a string given as the sequence of its characters
RECURSIVE Split(_)
Split(str) ==
    IF \A j \in 1..Len(str) : str[j] # "|"
    THEN <<str>>
    ELSE LET j == CHOOSE j \in 1..Len(str) :
                      /\ str[j] = "|"
                      /\ \A h \in 1..(j - 1) : str[h] # "|"
         IN  <<SubSeq(str, 1, j - 1)>> \o Split(SubSeq(str, j + 1, Len(str)))

\* (mutant) the inner forEach of resetHotkeys without if (key === "") return
RECURSIVE RegisterKeysWithEmpty(_, _, _)
RegisterKeysWithEmpty(t, segments, fnct) ==
    IF segments = <<>>
    THEN t
    ELSE RegisterKeysWithEmpty(HotkeysRegister(t, Head(segments), fnct),
                               Tail(segments), fnct)

\* the inner forEach of resetHotkeys: every key that is not "" is registered
RECURSIVE RegisterKeys(_, _, _)
RegisterKeys(t, segments, fnct) ==
    IF segments = <<>>
    THEN t
    ELSE RegisterKeys(IF Head(segments) = <<>>
                      THEN t
                      ELSE HotkeysRegister(t, Head(segments), fnct),
                      Tail(segments), fnct)

\* (mutant) the handler of resetHotkeys gated by the module's enabled flag
HandlerIfEnabled(pageMatches, fnct) ==
    IF pageMatches /\ enabled = "true" THEN fnct ELSE "noop"

\* if (enabled) register(key, value.fnct, ...) else register(key, () => { return; })
Handler(pageMatches, fnct) == IF pageMatches THEN fnct ELSE "noop"

\* this.hotkeys.forEach(...) of resetHotkeys over the cached record rec;
\* fetchSettings(value.keys).split throws when the setting is undefined, and
\* the registrations made until then stay
RECURSIVE ResetBindings(_, _, _, _)
ResetBindings(t, bindings, rec, pageMatches) ==
    IF bindings = <<>>
    THEN [table |-> t, threw |-> FALSE]
    ELSE IF Head(bindings).keys \notin DOMAIN rec
    THEN [table |-> t, threw |-> TRUE]
    ELSE ResetBindings(RegisterKeys(t, Split(rec[Head(bindings).keys]),
                                    Handler(pageMatches, Head(bindings).fnct)),
                       Tail(bindings), rec, pageMatches)

\* the bindings a module declares: a setting that holds the key
\* combinations, and a handler
Bindings == {[keys |-> "hotkeyA", fnct |-> "fnA"], [keys |-> "hotkeyB", fnct |-> "fnB"]}

\* key combinations as configured: "a|b", "a||b", "b" and ""
Combos == {<<"a", "|", "b">>, <<"a", "|", "|", "b">>, <<"b">>, <<>>}

\* stored records of a module with hotkey settings
HotkeyStored ==
    {None}
    \cup {Some([enabled |-> "false", hotkeyA |-> c1, hotkeyB |-> c2]) :
            c1 \in Combos, c2 \in {<<"b">>, <<>>}}
    \cup {Some([hotkeyA |-> c1]) : c1 \in Combos}

(***************************************************************************)
(* Operations in flight and returned values                                *)
(***************************************************************************)
\* kind, pc: the method and where it stands; key, arg: its arguments;
\* snap: the record loadSettingsValues returned; sent: the record handed to
\* setValue; io: how the set or delete ended; solo: no other operation has
\* been in flight since the call; before: the cache when a solo pushSettings
\* was called.  A returned value also carries read: the record the call
\* loaded, when it is a load that settles with the record still at hand
NewOp(kind, pc, key, arg) ==
    [kind |-> kind, pc |-> pc, key |-> key, arg |-> arg, snap |-> None,
     sent |-> None, io |-> "", solo |-> (ops = <<>>),
     before |-> IF kind = "pushSettings" /\ ops = <<>> THEN settings ELSE None]

\* an operation issued while others are in flight overlaps all of them
Issue(op) ==
    Append([i \in 1..Len(ops) |-> [ops[i] EXCEPT !.solo = FALSE, !.before = None]],
           op)

Remove(i) == SubSeq(ops, 1, i - 1) \o SubSeq(ops, i + 1, Len(ops))

Ret(op, key, arg, result, io, solo, before, read) ==
    [op |-> op, key |-> key, arg |-> arg, result |-> result, io |-> io,
     solo |-> solo, before |-> before, read |-> read]

NoRet == Ret("none", "", EmptyRecord, "", "", FALSE, None, None)

\* the promise of operation i settles with result
Settle(i, result) ==
    /\ ops' = Remove(i)
    /\ last' = Ret(ops[i].kind, ops[i].key, ops[i].arg, result, ops[i].io,
                   ops[i].solo, ops[i].before, ops[i].snap)

\* a synchronous call returns result
Return(op, key, result) ==
    last' = Ret(op, key, EmptyRecord, result, "", ops = <<>>, None, None)

\* a page without a tag input, an edit link or a thumbnail
NoElements ==
    /\ editLink = FALSE
    /\ tagInput = None
    /\ val = <<>>
    /\ focused = FALSE
    /\ article = FALSE

\* nothing attached to the page yet
Untouched ==
    /\ handlers = <<>>
    /\ closures = <<>>
    /\ oneShot = <<>>
    /\ containers = 0
    /\ rebuilds = 0
    /\ guid = 0
    /\ fires = <<>>
    /\ zoomPaused = FALSE
    /\ thumbs = <<>>
    /\ pending = {}
    /\ events = <<>>
    /\ navigated = 0
    /\ tabs = 0

(***************************************************************************)
(* SmartAlias: the tag input, the edit link and the timers                 *)
(***************************************************************************)
\* SmartAlias.inputSelector
inputSelector ==
    {"#post_tags", "#post_tag_string", "#post_characters", "#post_sexes",
     "#post_bodyTypes", "#post_themes"}

\* $(SmartAlias.inputSelector.join(", ")) selects the element
CreateSelects(el) == el.id \in inputSelector

\* $("textarea#post_tags, textarea#post_tag_string") selects the element
DestroySelects(el) == el.tag = "textarea" /\ el.id \in {"#post_tags", "#post_tag_string"}

\* the tag inputs of the pages: the textarea of the post page, and an input
\* of the upload form
TagInputs ==
    {[tag |-> "textarea", id |-> "#post_tags"], [tag |-> "input", id |-> "#post_characters"]}

\* what the tag input may hold: "", "x", "x " and "y"
Texts == {<<>>, <<"x">>, <<"x", " ">>, <<"y">>}

\* str.trim()
RECURSIVE Trim(_)
Trim(str) ==
    IF str = <<>> THEN str
    ELSE IF Head(str) = " " THEN Trim(Tail(str))
    ELSE IF str[Len(str)] = " " THEN Trim(SubSeq(str, 1, Len(str) - 1))
    ELSE str

\* getInputValue(): $textarea.val().toString().trim()
getInputValue == Trim(val)

\* $el.on(type, handler): a handler without a namespace, of the closure
jQueryOn(hs, type, closure) ==
    Append(hs, [type |-> type, namespaces |-> {}, closure |-> closure])

\* $el.off(type + "." + namespaces): removes the handlers of the type that
\* were attached with every one of the namespaces
jQueryOff(hs, type, namespaces) ==
    LET Keep(h) == ~(h.type = type /\ namespaces \subseteq h.namespaces)
    IN  SelectSeq(hs, Keep)

\* the local variables of one pass of the loop of create: inputFocusInterval
\* (interval: it is running), inputValue of the focus handler,
\* inputChangeTimeout (timeout: it is pending), processingInput, and whether
\* the calls of handleTagInput in progress (run); the first call is under way
NewClosure ==
    [interval |-> FALSE, inputValue |-> <<>>, timeout |-> FALSE,
     processingInput |-> TRUE, run |-> 1]

\* calls of create the page of the model takes
CreateCap == IF tagInput = None THEN MaxCreates ELSE MaxClosures

\* calls of create that found an element of the page
Created == IF guid > Len(closures) THEN guid ELSE Len(closures)

\* the closures whose handler of the type is attached to the tag input
Attached(type) == {handlers[j].closure : j \in {h \in 1..Len(handlers) : handlers[h].type = type}}

\* SmartAlias.create after super.create(): the one-shot handler on
\* #post-edit-link, then per tag input the container, the focus and focusout
\* handlers and the first call of handleTagInput
SmartAliasCreateBody ==
    /\ initialized' = TRUE
    /\ IF editLink
       THEN /\ oneShot' = Append(oneShot, guid + 1)
            /\ guid' = guid + 1
            /\ fires' = Append(fires, 0)
       ELSE UNCHANGED <<oneShot, guid, fires>>
    /\ IF tagInput # None /\ CreateSelects(tagInput[1])
       THEN /\ containers' = containers + 1
            /\ handlers' = jQueryOn(jQueryOn(handlers, "focus", Len(closures) + 1),
                                    "focusout", Len(closures) + 1)
            /\ closures' = Append(closures, NewClosure)
       ELSE UNCHANGED <<containers, handlers, closures>>

\* SmartAlias.destroy: nothing when not initialized; else super.destroy(),
\* the two off() on the textareas it selects, and $("smart-alias").remove()
SmartAliasDestroyBody ==
    IF ~isInitialized
    THEN UNCHANGED <<initialized, handlers, containers>>
    ELSE /\ initialized' = FALSE
         /\ handlers' =
               IF tagInput # None /\ DestroySelects(tagInput[1])
               THEN jQueryOff(jQueryOff(handlers, "focus", {"re621", "smart-alias"}),
                              "focusout", {"re621", "smart-alias"})
               ELSE handlers
         /\ containers' = 0

Init ==
    /\ cls \in Classes
    /\ \E arg \in ConstructorArgs(cls) : constraint = Constructor(arg)
    /\ path \in Paths
    /\ initialized = FALSE
    /\ enabled = Undefined
    /\ settings = None
    /\ stored = None
    /\ thumbAttr = None
    /\ ops = <<>>
    /\ last = NoRet
    /\ hotkeys = <<>>
    /\ table = NoEntries
    /\ instance = [c \in Classes |-> 0]
    /\ objects = <<>>
    /\ listeners = <<>>
    /\ NoElements
    /\ Untouched

(***************************************************************************)
(* Synchronous methods                                                     *)
(***************************************************************************)
CanInitialize ==
    /\ Return("canInitialize", "", canInitialize)
    /\ UNCHANGED <<hotkeys, table, statics, dom, cls, constraint, path, initialized, enabled, settings,
                   stored, thumbAttr, ops>>

\* (mutant) setEnabled that also sets the enabled property of the cache
SetEnabledInCache(b) ==
    /\ enabled' = b
    /\ settings' = IF settings = None THEN settings
                   ELSE Some(Assign(settings[1], [enabled |-> b]))
    /\ Return("setEnabled", b, "void")
    /\ UNCHANGED <<hotkeys, table, statics, dom, cls, constraint, path, initialized,
                   stored, thumbAttr, ops>>

SetEnabled(b) ==
    /\ enabled' = b
    /\ Return("setEnabled", b, "void")
    /\ UNCHANGED <<hotkeys, table, statics, dom, cls, constraint, path, initialized, settings, stored,
                   thumbAttr, ops>>

\* toggleThumbCrop(state = true) and its siblings: state + ""
ToggleAttr(state) == IF state = Undefined THEN "true" ELSE state

\* what RE6Module holds besides initialized, and the last returned value
core == <<cls, constraint, path, enabled, settings, stored, ops, hotkeys, table, statics>>

\* RE6Module.create: the flag update
BaseCreate ==
    /\ initialized' = TRUE
    /\ Return("create", "", "void")
    /\ UNCHANGED <<thumbAttr, thumbs, handlers, closures, oneShot, containers, guid, fires>>

\* SmartAlias.create: super.create(), then the handlers, the container and
\* the first call of handleTagInput
SmartAliasCreate ==
    /\ Created + rebuilds < CreateCap
    /\ SmartAliasCreateBody
    /\ Return("create", "", "void")
    /\ UNCHANGED <<thumbAttr, thumbs>>

\* ThumbnailEnhancer.create: no super.create(); reads the cache, calls
\* modifyThumbnail on the article of the page, sets the three attributes.
\* A thumb holds the local variables of one call of modifyThumbnail: prevent,
\* dbclickTimer (0: undefined), and whether the click handler is attached
ThumbnailEnhancerCreate ==
    /\ (article /\ settings # None) => Len(thumbs) < MaxThumbs
    /\ IF settings = None
       THEN /\ Return("create", "", "throws")
            /\ UNCHANGED <<thumbAttr, thumbs>>
       ELSE /\ Return("create", "", "void")
            /\ thumbs' = IF article
                         THEN Append(thumbs, [prevent |-> FALSE, dbclickTimer |-> 0,
                                              clickBound |-> TRUE])
                         ELSE thumbs
            /\ thumbAttr' = Some([crop |-> ToggleAttr(fetchSettings(settings, "crop")),
                                  vote |-> ToggleAttr(fetchSettings(settings, "vote")),
                                  zoom |-> ToggleAttr(fetchSettings(settings, "zoom"))])
    /\ UNCHANGED <<initialized, handlers, closures, oneShot, containers, guid, fires>>

Create ==
    /\ CASE cls = "ThumbnailEnhancer" -> ThumbnailEnhancerCreate
         [] cls = "SmartAlias" -> SmartAliasCreate
         [] OTHER -> BaseCreate
    /\ UNCHANGED <<core, editLink, tagInput, val, focused, rebuilds, article,
                   zoomPaused, pending, events, navigated, tabs>>

\* RE6Module.destroy: the flag update; SmartAlias.destroy
Destroy ==
    /\ IF cls = "SmartAlias"
       THEN SmartAliasDestroyBody
       ELSE /\ initialized' = FALSE
            /\ UNCHANGED <<handlers, containers>>
    /\ Return("destroy", "", "void")
    /\ UNCHANGED <<core, thumbAttr, editLink, tagInput, val, focused, closures,
                   oneShot, rebuilds, guid, fires, thumb>>

(***************************************************************************)
(* Asynchronous methods: the call                                          *)
(***************************************************************************)
Start(kind, pc, key, arg) ==
    /\ ops' = Issue(NewOp(kind, pc, key, arg))
    /\ last' = NoRet
    /\ UNCHANGED <<hotkeys, table, statics, dom, cls, constraint, path, initialized, enabled, settings,
                   stored, thumbAttr>>

\* prepare(): await this.loadSettingsCache()
Prepare ==
    /\ Len(ops) < MaxInFlight
    /\ Start("prepare", "get", "", EmptyRecord)

\* refreshSettings(): return this.loadSettingsCache()
RefreshSettings ==
    /\ Len(ops) < MaxInFlight
    /\ Start("refreshSettings", "get", "", EmptyRecord)

\* fetchSettingsGently(property): await this.loadSettingsValues()
FetchSettingsGently(property) ==
    /\ Len(ops) < MaxInFlight
    /\ Start("fetchSettingsGently", "get", property, EmptyRecord)

\* pushSettings(property[, value]): this.loadSettingsCache().then(...)
PushSettings(property) ==
    /\ Len(ops) < MaxInFlight
    /\ Start("pushSettings", "get", "", property)

\* clearSettings(): XM.Storage.deleteValue(...).then(...)
ClearSettings ==
    /\ Len(ops) < MaxInFlight
    /\ Start("clearSettings", "delete", "", EmptyRecord)

(***************************************************************************)
(* Asynchronous methods: the steps after each await                        *)
(***************************************************************************)
\* (mutant) fetchSettingsGently going through loadSettingsCache
StorageGetCaching(i) ==
    /\ ops[i].pc = "get"
    /\ IF ops[i].kind = "fetchSettingsGently"
       THEN /\ Settle(i, Get(loadSettingsValues(cls, stored), ops[i].key))
            /\ settings' = Some(loadSettingsValues(cls, stored))
       ELSE /\ ops' = [ops EXCEPT ![i].snap = Some(loadSettingsValues(cls, stored)),
                                  ![i].pc = "loaded"]
            /\ last' = NoRet
            /\ UNCHANGED settings
    /\ UNCHANGED <<hotkeys, table, statics, dom, cls, constraint, path, initialized, enabled, stored, thumbAttr>>

\* XM.Storage.getValue answers inside loadSettingsValues
StorageGet(i) ==
    /\ ops[i].pc = "get"
    /\ IF ops[i].kind = "fetchSettingsGently"
       THEN Settle(i, Get(loadSettingsValues(cls, stored), ops[i].key))
       ELSE /\ ops' = [ops EXCEPT ![i].snap = Some(loadSettingsValues(cls, stored)),
                                  ![i].pc = "loaded"]
            /\ last' = NoRet
    /\ UNCHANGED <<hotkeys, table, statics, dom, cls, constraint, path, initialized, enabled, settings,
                   stored, thumbAttr>>

\* XM.Storage.getValue rejects: the rejection propagates to the caller; in
\* fetchSettings with fresh it is lost in the executor of new Promise, whose
\* promise then stays pending
StorageGetRejects(i) ==
    /\ ops[i].pc = "get"
    /\ Settle(i, IF ops[i].kind = "fetchSettingsFresh" THEN "pending" ELSE "rejected")
    /\ UNCHANGED <<hotkeys, table, statics, dom, cls, constraint, path, initialized, enabled, settings,
                   stored, thumbAttr>>

\* (mutant) a load that leaves a cache that is already there
LoadSettingsCacheFirstWins(i) ==
    /\ ops[i].pc = "loaded"
    /\ settings' = IF settings = None THEN ops[i].snap ELSE settings
    /\ IF ops[i].kind \in {"refreshSettings", "clearSettings"}
       THEN Settle(i, "true")
       ELSE /\ ops' = [ops EXCEPT
                        ![i].snap = IF ops[i].kind = "fetchSettingsFresh"
                                    THEN ops[i].snap ELSE None,
                        ![i].pc = "then"]
            /\ last' = NoRet
    /\ UNCHANGED <<hotkeys, table, statics, dom, cls, constraint, path, initialized, enabled, stored, thumbAttr>>

\* (mutant) pushSettings merging into the cache as it stands, without the reload
LoadSettingsCacheNotForPush(i) ==
    /\ ops[i].pc = "loaded"
    /\ settings' = IF ops[i].kind = "pushSettings" /\ settings # None
                   THEN settings ELSE ops[i].snap
    /\ IF ops[i].kind \in {"refreshSettings", "clearSettings"}
       THEN Settle(i, "true")
       ELSE /\ ops' = [ops EXCEPT
                        ![i].snap = IF ops[i].kind = "fetchSettingsFresh"
                                    THEN ops[i].snap ELSE None,
                        ![i].pc = "then"]
            /\ last' = NoRet
    /\ UNCHANGED <<hotkeys, table, statics, dom, cls, constraint, path, initialized, enabled, stored, thumbAttr>>

\* loadSettingsCache: this.settings = await this.loadSettingsValues()
LoadSettingsCache(i) ==
    /\ ops[i].pc = "loaded"
    /\ settings' = ops[i].snap
    /\ IF ops[i].kind \in {"refreshSettings", "clearSettings"}
       THEN Settle(i, "true")
       ELSE /\ ops' = [ops EXCEPT
                        ![i].snap = IF ops[i].kind = "fetchSettingsFresh"
                                    THEN ops[i].snap ELSE None,
                        ![i].pc = "then"]
            /\ last' = NoRet
    /\ UNCHANGED <<hotkeys, table, statics, dom, cls, constraint, path, initialized, enabled, stored, thumbAttr>>

\* (mutant) a prepare() that leaves an enabled flag that is already set
PrepareThenKeepingFlag(i) ==
    /\ ops[i].kind = "prepare"
    /\ ops[i].pc = "then"
    /\ enabled' = IF enabled = Undefined THEN fetchSettings(settings, "enabled") ELSE enabled
    /\ Settle(i, "void")
    /\ UNCHANGED <<hotkeys, table, statics, dom, cls, constraint, path, initialized, settings, stored, thumbAttr>>

\* prepare(): this.enabled = this.fetchSettings("enabled")
PrepareThen(i) ==
    /\ ops[i].kind = "prepare"
    /\ ops[i].pc = "then"
    /\ enabled' = fetchSettings(settings, "enabled")
    /\ Settle(i, "void")
    /\ UNCHANGED <<hotkeys, table, statics, dom, cls, constraint, path, initialized, settings, stored, thumbAttr>>

\* (mutant) a then-callback that saves the merged record and leaves the cache
PushThenSavingOnly(i) ==
    /\ ops[i].kind = "pushSettings"
    /\ ops[i].pc = "then"
    /\ ops' = [ops EXCEPT ![i].sent = Some(Assign(settings[1], ops[i].arg)),
                          ![i].pc = "set"]
    /\ last' = NoRet
    /\ UNCHANGED <<hotkeys, table, statics, dom, cls, constraint, path, initialized, enabled, settings,
                   stored, thumbAttr>>

\* (mutant) a then-callback that hands the record to setValue before merging
PushThenSendingBefore(i) ==
    /\ ops[i].kind = "pushSettings"
    /\ ops[i].pc = "then"
    /\ settings' = Some(Assign(settings[1], ops[i].arg))
    /\ ops' = [ops EXCEPT ![i].sent = settings, ![i].pc = "set"]
    /\ last' = NoRet
    /\ UNCHANGED <<hotkeys, table, statics, dom, cls, constraint, path, initialized, enabled, stored, thumbAttr>>

\* pushSettings: the then-callback merges into this.settings and calls
\* saveSettingsCache(), which hands this.settings to XM.Storage.setValue
PushThen(i) ==
    /\ ops[i].kind = "pushSettings"
    /\ ops[i].pc = "then"
    /\ settings' = Some(Assign(settings[1], ops[i].arg))
    /\ ops' = [ops EXCEPT ![i].sent = settings', ![i].pc = "set"]
    /\ last' = NoRet
    /\ UNCHANGED <<hotkeys, table, statics, dom, cls, constraint, path, initialized, enabled, stored, thumbAttr>>

\* (mutant) saveSettingsCache handing over the pushed properties alone
StorageSetPushedOnly(i) ==
    /\ ops[i].pc = "set"
    /\ \E outcome \in WriteOutcomes :
          /\ stored' = StorageSetValue(stored, ops[i].arg, outcome)
          /\ ops' = [ops EXCEPT ![i].sent = None, ![i].io = outcome,
                                ![i].pc = "settled"]
    /\ last' = NoRet
    /\ UNCHANGED <<hotkeys, table, statics, dom, cls, constraint, path, initialized, enabled, settings, thumbAttr>>

\* XM.Storage.setValue writes, or fails
StorageSet(i) ==
    /\ ops[i].pc = "set"
    /\ \E outcome \in WriteOutcomes :
          /\ stored' = StorageSetValue(stored, ops[i].sent[1], outcome)
          /\ ops' = [ops EXCEPT ![i].sent = None, ![i].io = outcome,
                                ![i].pc = "settled"]
    /\ last' = NoRet
    /\ UNCHANGED <<hotkeys, table, statics, dom, cls, constraint, path, initialized, enabled, settings, thumbAttr>>

\* pushSettings settles with what saveSettingsCache() settled to
PushSettle(i) ==
    /\ ops[i].pc = "settled"
    /\ Settle(i, Settled(ops[i].io))
    /\ UNCHANGED <<hotkeys, table, statics, dom, cls, constraint, path, initialized, enabled, settings,
                   stored, thumbAttr>>

\* XM.Storage.deleteValue deletes, or fails
StorageDelete(i) ==
    /\ ops[i].pc = "delete"
    /\ \E outcome \in WriteOutcomes :
          /\ stored' = StorageDeleteValue(stored, outcome)
          /\ ops' = [ops EXCEPT ![i].io = outcome, ![i].pc = "deleted"]
    /\ last' = NoRet
    /\ UNCHANGED <<hotkeys, table, statics, dom, cls, constraint, path, initialized, enabled, settings, thumbAttr>>

\* clearSettings: .then(() => this.loadSettingsCache()), whatever deleteValue
\* resolved to; a rejection skips the callback
ClearThen(i) ==
    /\ ops[i].pc = "deleted"
    /\ IF ops[i].io = "reject"
       THEN Settle(i, "rejected")
       ELSE /\ ops' = [ops EXCEPT ![i].pc = "get"]
            /\ last' = NoRet
    /\ UNCHANGED <<hotkeys, table, statics, dom, cls, constraint, path, initialized, enabled, settings,
                   stored, thumbAttr>>

(***************************************************************************)
(* fetchSettings, and writes of another context                            *)
(***************************************************************************)
\* fetchSettings(property) without fresh: this.settings[property]
FetchSettings(property) ==
    /\ Return("fetchSettings", property, fetchSettings(settings, property))
    /\ UNCHANGED <<hotkeys, table, statics, dom, cls, constraint, path, initialized, enabled, settings,
                   stored, thumbAttr, ops>>

\* fetchSettings(property: string[]) without fresh
FetchSettingsArray(property) ==
    /\ Return("fetchSettingsArray", property, fetchSettingsArray(settings, property))
    /\ UNCHANGED <<hotkeys, table, statics, dom, cls, constraint, path, initialized, enabled, settings,
                   stored, thumbAttr, ops>>

\* fetchSettings(property, true): new Promise(async (resolve) => { await
\* this.loadSettingsCache(); ... })
FetchSettingsFresh(property) ==
    /\ Len(ops) < MaxInFlight
    /\ Start("fetchSettingsFresh", "get", property, EmptyRecord)

\* (mutant) a continuation that resolves with the default of the property
FreshThenStale(i) ==
    /\ ops[i].kind = "fetchSettingsFresh"
    /\ ops[i].pc = "then"
    /\ Settle(i, Get(getDefaultSettings(cls), ops[i].key))
    /\ UNCHANGED <<hotkeys, table, statics, dom, cls, constraint, path, initialized, enabled, settings,
                   stored, thumbAttr>>

\* fetchSettings(property, true) after the await:
\* resolve(this.fetchSettings(property))
FreshThen(i) ==
    /\ ops[i].kind = "fetchSettingsFresh"
    /\ ops[i].pc = "then"
    /\ Settle(i, fetchSettings(settings, ops[i].key))
    /\ UNCHANGED <<hotkeys, table, statics, dom, cls, constraint, path, initialized, enabled, settings,
                   stored, thumbAttr>>

\* another context sets the value stored under the module's key
OtherContextWrite(rec) ==
    /\ stored' = Some(rec)
    /\ last' = NoRet
    /\ UNCHANGED <<hotkeys, table, statics, dom, cls, constraint, path, initialized, enabled, settings,
                   thumbAttr, ops>>

(***************************************************************************)
(* Static methods: getInstance, on, off, trigger                           *)
(***************************************************************************)
\* the class a class extends
Parent(c) == IF c = "RE6Module" THEN "none" ELSE "RE6Module"

\* this.instance in a static method called on class c: the property c owns,
\* or else the one it inherits from the class it extends
Lookup(c) ==
    IF instance[c] # 0 THEN instance[c]
    ELSE IF Parent(c) # "none" THEN instance[Parent(c)]
    ELSE 0

\* getInstance(): if (this.instance == undefined) this.instance = new this();
\* return this.instance
InstanceAfter(c) ==
    IF Lookup(c) = 0 THEN [instance EXCEPT ![c] = Len(objects) + 1] ELSE instance

ObjectsAfter(c) == IF Lookup(c) = 0 THEN Append(objects, c) ELSE objects

getInstance(c) == IF Lookup(c) = 0 THEN Len(objects) + 1 ELSE Lookup(c)

\* "re621.module." + this.getInstance().constructor.name + "." + event
EventName(c, event) ==
    <<"re621.module.", ObjectsAfter(c)[getInstance(c)], ".", event>>

Events == {"e", "f"}

Callbacks == {"h1", "h2"}

EventData == {"d1", "d2"}

GetInstance(c) ==
    /\ instance' = InstanceAfter(c)
    /\ objects' = ObjectsAfter(c)
    /\ Return("getInstance", c, getInstance(c))
    /\ UNCHANGED <<listeners, hotkeys, table, dom, cls, constraint, path, initialized,
                   enabled, settings, stored, thumbAttr, ops>>

\* on(event, callback): $(document).on(name, ...); by is the class the call
\* was made on
On(c, event, callback) ==
    /\ Len(listeners) < MaxListeners
    /\ instance' = InstanceAfter(c)
    /\ objects' = ObjectsAfter(c)
    /\ listeners' = Append(listeners, [name |-> EventName(c, event),
                                       callback |-> callback,
                                       by |-> c, event |-> event])
    /\ last' = Ret("on", c, [event |-> event], "void", "", ops = <<>>, None, None)
    /\ UNCHANGED <<hotkeys, table, dom, cls, constraint, path, initialized,
                   enabled, settings, stored, thumbAttr, ops>>

\* off(event): $(document).off(name)
Off(c, event) ==
    /\ instance' = InstanceAfter(c)
    /\ objects' = ObjectsAfter(c)
    /\ LET Keep(l) == l.name # EventName(c, event)
       IN  listeners' = SelectSeq(listeners, Keep)
    /\ last' = Ret("off", c, [event |-> event], "void", "", ops = <<>>, None, None)
    /\ UNCHANGED <<hotkeys, table, dom, cls, constraint, path, initialized,
                   enabled, settings, stored, thumbAttr, ops>>

\* trigger(event, data): $(document).trigger(name, data); the result is the
\* sequence of the callbacks invoked, each with the data it was given
Trigger(c, event, data) ==
    /\ instance' = InstanceAfter(c)
    /\ objects' = ObjectsAfter(c)
    /\ LET Keep(l) == l.name = EventName(c, event)
           invoked == SelectSeq(listeners, Keep)
       IN  last' = Ret("trigger", c, [event |-> event, data |-> data],
                       [j \in 1..Len(invoked) |->
                           [callback |-> invoked[j].callback, data |-> data]],
                       "", ops = <<>>, None, None)
    /\ UNCHANGED <<listeners, hotkeys, table, dom, cls, constraint, path, initialized,
                   enabled, settings, stored, thumbAttr, ops>>

(***************************************************************************)
(* Page.matches                                                            *)
(***************************************************************************)
\* Page.matches(filter) with a RegExp or an array of them:
\* if (filter instanceof RegExp) filter = [filter]
MatchesCall(arg) ==
    /\ Return("Page.matches", arg,
              IF PageMatches(IF arg.form = "regexp" THEN <<arg.pats[1]>> ELSE arg.pats,
                             path)
              THEN "true" ELSE "false")
    /\ UNCHANGED <<hotkeys, table, statics, dom, cls, constraint, path, initialized, enabled,
                   settings, stored, thumbAttr, ops>>

(***************************************************************************)
(* resetHotkeys and registerHotkeys                                        *)
(***************************************************************************)
\* resetHotkeys(): await this.loadSettingsCache()
ResetHotkeys ==
    /\ Len(ops) < MaxInFlight
    /\ Start("resetHotkeys", "get", "", EmptyRecord)

\* registerHotkeys(...hotkeys): this.hotkeys.push(...hotkeys);
\* this.resetHotkeys(), not awaited
RegisterHotkeys(binding) ==
    /\ Len(ops) < MaxInFlight
    /\ Len(hotkeys) < MaxHotkeys
    /\ hotkeys' = Append(hotkeys, binding)
    /\ ops' = Issue(NewOp("resetHotkeys", "get", "", EmptyRecord))
    /\ last' = NoRet
    /\ UNCHANGED <<table, statics, dom, cls, constraint, path, initialized, enabled, settings,
                   stored, thumbAttr>>

\* (mutant) a reset that registers into an emptied table
ResetThenClearing(i) ==
    /\ ops[i].kind = "resetHotkeys"
    /\ ops[i].pc = "then"
    /\ LET r == ResetBindings(NoEntries, hotkeys, settings[1], pageMatchesFilter)
       IN  /\ table' = r.table
           /\ Settle(i, IF r.threw THEN "rejected" ELSE "void")
    /\ UNCHANGED <<hotkeys, statics, dom, cls, constraint, path, initialized, enabled, settings,
                   stored, thumbAttr>>

\* resetHotkeys() after the await: the page match, then the registrations
ResetThen(i) ==
    /\ ops[i].kind = "resetHotkeys"
    /\ ops[i].pc = "then"
    /\ LET r == ResetBindings(table, hotkeys, settings[1], pageMatchesFilter)
       IN  /\ table' = r.table
           /\ Settle(i, IF r.threw THEN "rejected" ELSE "void")
    /\ UNCHANGED <<hotkeys, statics, dom, cls, constraint, path, initialized, enabled, settings,
                   stored, thumbAttr>>

(***************************************************************************)
(* getSavedSettings                                                        *)
(***************************************************************************)
\* this.settingsTag: this.constructor.name, as no class of the repository
\* hands a settingsTag to the constructor
settingsTag == cls

\* "re621." + this.settingsTag, as the sequence of its parts
SettingsKey == <<"re621.", settingsTag>>

GetOutcomes == {"ok", "reject"}

\* getSavedSettings(): await XM.Storage.getValue("re621." + settingsTag, {})
GetSavedSettings ==
    /\ Len(ops) < MaxInFlight
    /\ Start("getSavedSettings", "getSaved", "", EmptyRecord)

\* (mutant) getSavedSettings going through loadSettingsValues
SavedGetBackfilled(i) ==
    /\ ops[i].pc = "getSaved"
    /\ \E outcome \in GetOutcomes :
          /\ ops' = Remove(i)
          /\ last' = Ret(ops[i].kind, ops[i].key, ops[i].arg,
                         IF outcome = "ok"
                         THEN [name |-> SettingsKey,
                               data |-> loadSettingsValues(cls, stored)]
                         ELSE "rejected",
                         outcome, ops[i].solo, ops[i].before, None)
    /\ UNCHANGED <<hotkeys, table, statics, dom, cls, constraint, path, initialized, enabled, settings,
                   stored, thumbAttr>>

\* XM.Storage.getValue answers getSavedSettings, or rejects
SavedGet(i) ==
    /\ ops[i].pc = "getSaved"
    /\ \E outcome \in GetOutcomes :
          /\ ops' = Remove(i)
          /\ last' = Ret(ops[i].kind, ops[i].key, ops[i].arg,
                         IF outcome = "ok"
                         THEN [name |-> SettingsKey,
                               data |-> StorageGetValue(stored, EmptyRecord)]
                         ELSE "rejected",
                         outcome, ops[i].solo, ops[i].before, None)
    /\ UNCHANGED <<hotkeys, table, statics, dom, cls, constraint, path, initialized, enabled, settings,
                   stored, thumbAttr>>

(***************************************************************************)
(* SmartAlias: the events and the timers                                   *)
(***************************************************************************)
\* a click on #post-edit-link: every armed one-shot handler is removed and
\* runs; each calls this.destroy() and sets a timeout of 100 ms
EditLinkClick ==
    /\ editLink
    /\ Created + rebuilds + Len(oneShot) <= CreateCap
    /\ oneShot' = <<>>
    /\ fires' = [g \in 1..Len(fires) |->
                    IF \E j \in 1..Len(oneShot) : oneShot[j] = g
                    THEN fires[g] + 1 ELSE fires[g]]
    /\ rebuilds' = rebuilds + Len(oneShot)
    /\ IF oneShot = <<>>
       THEN UNCHANGED <<initialized, handlers, containers>>
       ELSE SmartAliasDestroyBody
    /\ Return("click", IF initialized THEN "true" ELSE "false", "void")
    /\ UNCHANGED <<core, thumbAttr, editLink, tagInput, val, focused, closures,
                   guid, thumb>>

\* (mutant) the timeout of the edit-link handler calling super.create() alone
RebuildFireFlagOnly ==
    /\ rebuilds > 0
    /\ rebuilds' = rebuilds - 1
    /\ initialized' = TRUE
    /\ Return("rebuild", "", "void")
    /\ UNCHANGED <<core, thumbAttr, editLink, tagInput, val, focused, handlers,
                   closures, oneShot, containers, guid, fires, thumb>>

\* the timeout of the edit-link handler fires: this.create()
RebuildFire ==
    /\ rebuilds > 0
    /\ rebuilds' = rebuilds - 1
    /\ SmartAliasCreateBody
    /\ Return("rebuild", "", "void")
    /\ UNCHANGED <<core, thumbAttr, editLink, tagInput, val, focused, thumb>>

\* the tag input gets the focus: every attached focus handler reads the
\* value and starts its interval of 500 ms
Focus ==
    /\ tagInput # None
    /\ ~focused
    /\ focused' = TRUE
    /\ closures' = [c \in 1..Len(closures) |->
                      IF c \in Attached("focus")
                      THEN [closures[c] EXCEPT !.interval = TRUE,
                                               !.inputValue = getInputValue]
                      ELSE closures[c]]
    /\ Return("focus", "", "void")
    /\ UNCHANGED <<initialized, core, thumbAttr, editLink, tagInput, val, handlers,
                   oneShot, containers, rebuilds, guid, fires, thumb>>

\* the tag input loses the focus: clearInterval(inputFocusInterval)
FocusOut ==
    /\ tagInput # None
    /\ focused
    /\ focused' = FALSE
    /\ closures' = [c \in 1..Len(closures) |->
                      IF c \in Attached("focusout")
                      THEN [closures[c] EXCEPT !.interval = FALSE]
                      ELSE closures[c]]
    /\ Return("focusout", "", "void")
    /\ UNCHANGED <<initialized, core, thumbAttr, editLink, tagInput, val, handlers,
                   oneShot, containers, rebuilds, guid, fires, thumb>>

\* the user, or the site's autocomplete, changes the text of the focused input
Type(text) ==
    /\ tagInput # None
    /\ focused
    /\ text # val
    /\ val' = text
    /\ Return("type", "", "void")
    /\ UNCHANGED <<initialized, core, thumbAttr, editLink, tagInput, focused,
                   handlers, closures, oneShot, containers, rebuilds, guid, fires,
                   thumb>>

\* (mutant) a tick without the test of processingInput
TickWhileProcessing(c) ==
    /\ c \in 1..Len(closures)
    /\ closures[c].interval
    /\ closures' =
          IF getInputValue = closures[c].inputValue
          THEN closures
          ELSE IF getInputValue = <<>>
          THEN [closures EXCEPT ![c].inputValue = getInputValue, ![c].timeout = FALSE]
          ELSE [closures EXCEPT ![c].inputValue = getInputValue,
                                ![c].processingInput = TRUE, ![c].timeout = TRUE]
    /\ last' = Ret("tick", "", [closure |-> c], "void", "", ops = <<>>, None, None)
    /\ UNCHANGED <<initialized, core, thumbAttr, editLink, tagInput, val, focused,
                   handlers, oneShot, containers, rebuilds, guid, fires, thumb>>

\* a tick of the interval of closure c: nothing while processingInput or
\* while the value is as it was; else the value is taken over and, unless it
\* is blank, processingInput is set and the timeout of 500 ms is set anew
Tick(c) ==
    /\ c \in 1..Len(closures)
    /\ closures[c].interval
    /\ closures' =
          IF closures[c].processingInput \/ getInputValue = closures[c].inputValue
          THEN closures
          ELSE IF getInputValue = <<>>
          THEN [closures EXCEPT ![c].inputValue = getInputValue, ![c].timeout = FALSE]
          ELSE [closures EXCEPT ![c].inputValue = getInputValue,
                                ![c].processingInput = TRUE, ![c].timeout = TRUE]
    /\ last' = Ret("tick", "", [closure |-> c], "void", "", ops = <<>>, None, None)
    /\ UNCHANGED <<initialized, core, thumbAttr, editLink, tagInput, val, focused,
                   handlers, oneShot, containers, rebuilds, guid, fires, thumb>>

\* inputChangeTimeout of closure c fires: await this.handleTagInput(...)
TimeoutFire(c) ==
    /\ c \in 1..Len(closures)
    /\ closures[c].timeout
    /\ closures' = [closures EXCEPT ![c].timeout = FALSE, ![c].run = @ + 1]
    /\ last' = Ret("timeout", "", [closure |-> c], "void", "", ops = <<>>, None, None)
    /\ UNCHANGED <<initialized, core, thumbAttr, editLink, tagInput, val, focused,
                   handlers, oneShot, containers, rebuilds, guid, fires, thumb>>

\* a handleTagInput of closure c ends: its promise is fulfilled ("ok"), or
\* rejected by AvoidPosting.update or E621.Tags.get ("reject"); when
\* fulfilled, processingInput = false
RunEnds(c, outcome) ==
    /\ c \in 1..Len(closures)
    /\ closures[c].run > 0
    /\ closures' = [closures EXCEPT
                      ![c].run = @ - 1,
                      ![c].processingInput =
                          IF outcome = "ok" THEN FALSE ELSE closures[c].processingInput]
    /\ last' = Ret("handleTagInput", "", [closure |-> c], IF outcome = "ok" THEN "void" ELSE "rejected", "", ops = <<>>, None, None)
    /\ UNCHANGED <<initialized, core, thumbAttr, editLink, tagInput, val, focused,
                   handlers, oneShot, containers, rebuilds, guid, fires, thumb>>

(***************************************************************************)
(* ThumbnailEnhancer: the click and dblclick handlers of modifyThumbnail   *)
(***************************************************************************)
\* event.button: the left button and another one
Buttons == {0, 1}

\* neither handler returns early: the left button, hover actions not
\* paused, the target not a vote button
Handled(button, onVote) == button = 0 /\ ~zoomPaused /\ ~onVote

\* the closures whose click handler takes the event
Taking(button, onVote) ==
    {t \in 1..Len(thumbs) : thumbs[t].clickBound /\ Handled(button, onVote)}

\* the click handlers: event.preventDefault(), dbclickTimer = the timeout set
AfterClick(button, onVote, id) ==
    [t \in 1..Len(thumbs) |->
        IF t \in Taking(button, onVote)
        THEN [thumbs[t] EXCEPT !.dbclickTimer = id]
        ELSE thumbs[t]]

\* the timeouts the click handlers set
SetByClick(button, onVote, id) ==
    {[id |-> id, thumb |-> t] : t \in Taking(button, onVote)}

\* the default action of a click nobody prevented: the link is followed
\* (a vote button prevents it in its own handler)
Followed(button, onVote) ==
    IF Taking(button, onVote) = {} /\ button = 0 /\ ~onVote THEN 1 ELSE 0

\* what is known of a mouse event: its type, button and target, and whether
\* hover actions were paused
Event(type, button, onVote) ==
    [type |-> type, button |-> button, onVote |-> onVote, paused |-> zoomPaused]

\* ThumbnailEnhancer.pauseHoverActions(zoomPaused); with false, the
\* attributes are read from the module, whose fetchSettings throws while the
\* cache is not loaded
PauseHoverActions(paused) ==
    /\ IF paused
       THEN /\ thumbAttr' = Some([crop |-> IF thumbAttr = None THEN Undefined
                                           ELSE thumbAttr[1].crop,
                                  vote |-> "false", zoom |-> "false"])
            /\ zoomPaused' = TRUE
            /\ Return("pauseHoverActions", "true", "void")
       ELSE IF settings = None
       THEN /\ UNCHANGED <<thumbAttr, zoomPaused>>
            /\ Return("pauseHoverActions", "false", "throws")
       ELSE /\ thumbAttr' = Some([crop |-> IF thumbAttr = None THEN Undefined
                                           ELSE thumbAttr[1].crop,
                                  vote |-> fetchSettings(settings, "vote"),
                                  zoom |-> fetchSettings(settings, "zoom")])
            /\ zoomPaused' = FALSE
            /\ Return("pauseHoverActions", "false", "void")
    /\ UNCHANGED <<initialized, core, alias, article, thumbs, pending, events,
                   navigated, tabs>>

\* a press of a mouse button on the thumbnail link that is not the second
\* of a double click: the click event
Press(button, onVote) ==
    /\ thumbs # <<>>
    /\ Len(events) < MaxEvents
    /\ events' = Append(events, Event("click", button, onVote))
    /\ thumbs' = AfterClick(button, onVote, Len(events) + 1)
    /\ pending' = pending \cup SetByClick(button, onVote, Len(events) + 1)
    /\ navigated' = navigated + Followed(button, onVote)
    /\ Return("click", "", "void")
    /\ UNCHANGED <<initialized, core, thumbAttr, alias, article, zoomPaused, tabs>>

\* the second press of a double click: the click event and the dblclick
\* event, dispatched one after the other.  The dblclick handler clears the
\* timeout dbclickTimer names, sets prevent and opens the post in a tab
SecondPress(button, onVote) ==
    /\ thumbs # <<>>
    /\ events # <<>>
    /\ events[Len(events)].type = "click"
    /\ Len(events) + 2 <= MaxEvents
    /\ events' = events \o <<Event("click", button, onVote),
                             Event("dblclick", button, onVote)>>
    /\ LET clicked == AfterClick(button, onVote, Len(events) + 1)
           set == pending \cup SetByClick(button, onVote, Len(events) + 1)
       IN  IF Handled(button, onVote)
           THEN /\ thumbs' = [t \in 1..Len(thumbs) |-> [clicked[t] EXCEPT !.prevent = TRUE]]
                /\ pending' = {p \in set : p.id # clicked[p.thumb].dbclickTimer}
                /\ tabs' = tabs + Len(thumbs)
           ELSE /\ thumbs' = clicked
                /\ pending' = set
                /\ UNCHANGED tabs
    /\ navigated' = navigated + Followed(button, onVote)
    /\ Return("dblclick", "", "void")
    /\ UNCHANGED <<initialized, core, thumbAttr, alias, article, zoomPaused>>

\* a timeout of 200 ms set by a click handler fires: unless prevent, the
\* click handler is taken off and $link[0].click() follows the link;
\* prevent = false
TimerFire(p) ==
    /\ p \in pending
    /\ pending' = pending \ {p}
    /\ thumbs' = [thumbs EXCEPT
                    ![p.thumb].clickBound = IF thumbs[p.thumb].prevent THEN @ ELSE FALSE,
                    ![p.thumb].prevent = FALSE]
    /\ navigated' = IF thumbs[p.thumb].prevent THEN navigated ELSE navigated + 1
    /\ Return("timer", "", IF thumbs[p.thumb].prevent THEN "prevented" ELSE "followed")
    /\ UNCHANGED <<initialized, core, thumbAttr, alias, article, zoomPaused, events, tabs>>

(***************************************************************************)
(* Spec: the settings cache of one module on one page.  Every class, with  *)
(* and without a record left in storage; the lifecycle flags stay as       *)
(* constructed.                                                            *)
(***************************************************************************)
InitSettings ==
    /\ cls \in Classes
    /\ constraint = Constructor(CHOOSE arg \in ConstructorArgs(cls) : TRUE)
    /\ path = <<"/", "posts">>
    /\ initialized = FALSE
    /\ enabled = Undefined
    /\ settings = None
    /\ stored \in InitStored
    /\ thumbAttr = None
    /\ ops = <<>>
    /\ last = NoRet
    /\ hotkeys = <<>>
    /\ table = NoEntries
    /\ instance = [c \in Classes |-> 0]
    /\ objects = <<>>
    /\ listeners = <<>>
    /\ NoElements
    /\ Untouched

Next ==
    \/ RefreshSettings
    \/ \E property \in FetchKeys : FetchSettingsGently(property)
    \/ \E property \in PushArgs : PushSettings(property)
    \/ ClearSettings
    \/ \E i \in 1..Len(ops) : StorageGet(i)
    \/ \E i \in 1..Len(ops) : StorageGetRejects(i)
    \/ \E i \in 1..Len(ops) : LoadSettingsCache(i)
    \/ \E i \in 1..Len(ops) : PushThen(i)
    \/ \E i \in 1..Len(ops) : StorageSet(i)
    \/ \E i \in 1..Len(ops) : PushSettle(i)
    \/ \E i \in 1..Len(ops) : StorageDelete(i)
    \/ \E i \in 1..Len(ops) : ClearThen(i)

Spec == InitSettings /\ [][Next]_vars

(***************************************************************************)
(* SpecLifecycle: prepare / canInitialize / create / destroy / setEnabled  *)
(* of every class on every page, with the settings operations that can     *)
(* change the enabled setting.                                             *)
(***************************************************************************)
EnabledArgs == {[enabled |-> "false"], [enabled |-> "true"]}

NextLifecycle ==
    \/ CanInitialize
    \/ \E b \in {"true", "false"} : SetEnabled(b)
    \/ Create
    \/ Destroy
    \/ Prepare
    \/ RefreshSettings
    \/ \E property \in EnabledArgs : PushSettings(property)
    \/ \E i \in 1..Len(ops) : StorageGet(i)
    \/ \E i \in 1..Len(ops) : StorageGetRejects(i)
    \/ \E i \in 1..Len(ops) : LoadSettingsCache(i)
    \/ \E i \in 1..Len(ops) : PrepareThen(i)
    \/ \E i \in 1..Len(ops) : PushThen(i)
    \/ \E i \in 1..Len(ops) : StorageSet(i)
    \/ \E i \in 1..Len(ops) : PushSettle(i)

SpecLifecycle == Init /\ [][NextLifecycle]_vars

(***************************************************************************)
(* SpecBackfill: loads of the settings over every record an earlier        *)
(* version may have stored, for the defaults of every class.               *)
(***************************************************************************)
BackfillKeys == {"enabled", "crop", "data", "a"}

BackfillValues == {"true", "false"}

StoredRecords ==
    UNION {[keys -> BackfillValues] : keys \in SUBSET BackfillKeys}

InitBackfill ==
    /\ cls \in Classes
    /\ constraint = Constructor(CHOOSE arg \in ConstructorArgs(cls) : TRUE)
    /\ path = <<"/", "posts">>
    /\ initialized = FALSE
    /\ enabled = Undefined
    /\ settings = None
    /\ stored \in {None} \cup {Some(r) : r \in StoredRecords}
    /\ thumbAttr = None
    /\ ops = <<>>
    /\ last = NoRet
    /\ hotkeys = <<>>
    /\ table = NoEntries
    /\ instance = [c \in Classes |-> 0]
    /\ objects = <<>>
    /\ listeners = <<>>
    /\ NoElements
    /\ Untouched

NextBackfill ==
    \/ RefreshSettings
    \/ \E property \in FetchKeys : FetchSettingsGently(property)
    \/ \E i \in 1..Len(ops) : StorageGet(i)
    \/ \E i \in 1..Len(ops) : StorageGetRejects(i)
    \/ \E i \in 1..Len(ops) : LoadSettingsCache(i)

SpecBackfill == InitBackfill /\ [][NextBackfill]_vars

(***************************************************************************)
(* SpecFresh: reads of the cache and of storage while another context      *)
(* writes the stored record and a push is under way.                       *)
(***************************************************************************)
FreshPushArgs == {[a |-> "1"]}

NextFresh ==
    \/ \E property \in FetchKeys : FetchSettings(property)
    \/ \E property \in FetchArrays : FetchSettingsArray(property)
    \/ \E property \in FetchKeys : FetchSettingsFresh(property)
    \/ \E property \in FreshPushArgs : PushSettings(property)
    \/ \E rec \in OtherRecords : OtherContextWrite(rec)
    \/ \E i \in 1..Len(ops) : StorageGet(i)
    \/ \E i \in 1..Len(ops) : StorageGetRejects(i)
    \/ \E i \in 1..Len(ops) : LoadSettingsCache(i)
    \/ \E i \in 1..Len(ops) : FreshThen(i)
    \/ \E i \in 1..Len(ops) : PushThen(i)
    \/ \E i \in 1..Len(ops) : StorageSet(i)
    \/ \E i \in 1..Len(ops) : PushSettle(i)

SpecFresh == InitSettings /\ [][NextFresh]_vars

(***************************************************************************)
(* SpecSaved: getSavedSettings next to loads of the cache, over every      *)
(* stored record of SpecBackfill.                                          *)
(***************************************************************************)
NextSaved ==
    \/ RefreshSettings
    \/ GetSavedSettings
    \/ \E i \in 1..Len(ops) : StorageGet(i)
    \/ \E i \in 1..Len(ops) : StorageGetRejects(i)
    \/ \E i \in 1..Len(ops) : LoadSettingsCache(i)
    \/ \E i \in 1..Len(ops) : SavedGet(i)

SpecSaved == InitBackfill /\ [][NextSaved]_vars

(***************************************************************************)
(* SpecHotkeys: declared bindings and resets of the hotkeys, on pages that  *)
(* match the module's constraint and pages that do not, with the calls     *)
(* that change the lifecycle flags.                                        *)
(***************************************************************************)
InitHotkeys ==
    /\ cls \in {"RE6Module", "SmartAlias"}
    /\ \E arg \in ConstructorArgs(cls) : constraint = Constructor(arg)
    /\ path \in {<<"/", "posts", "/", "45", "/">>, <<"/", "users">>}
    /\ initialized = FALSE
    /\ enabled = Undefined
    /\ settings = None
    /\ stored \in HotkeyStored
    /\ thumbAttr = None
    /\ ops = <<>>
    /\ last = NoRet
    /\ hotkeys = <<>>
    /\ table = NoEntries
    /\ instance = [c \in Classes |-> 0]
    /\ objects = <<>>
    /\ listeners = <<>>
    /\ NoElements
    /\ Untouched

NextHotkeys ==
    \/ \E b \in {"true", "false"} : SetEnabled(b)
    \/ Create
    \/ Destroy
    \/ ResetHotkeys
    \/ \E binding \in Bindings : RegisterHotkeys(binding)
    \/ \E i \in 1..Len(ops) : StorageGet(i)
    \/ \E i \in 1..Len(ops) : StorageGetRejects(i)
    \/ \E i \in 1..Len(ops) : LoadSettingsCache(i)
    \/ \E i \in 1..Len(ops) : ResetThen(i)

SpecHotkeys == InitHotkeys /\ [][NextHotkeys]_vars

(***************************************************************************)
(* SpecPage: modules constructed with nothing, with one pattern and with   *)
(* arrays of patterns, on paths with and without trailing characters.      *)
(***************************************************************************)
Patterns == {"search", "post", "forum"}

\* what is handed to the constructor, and to Page.matches
PageArgs ==
    {[form |-> "undefined", pats |-> <<>>]}
    \cup {[form |-> "regexp", pats |-> <<p>>] : p \in Patterns}
    \cup {[form |-> "array", pats |-> <<>>]}
    \cup {[form |-> "array", pats |-> <<p>>] : p \in Patterns}
    \cup {[form |-> "array", pats |-> <<p, q>>] : p \in Patterns, q \in Patterns}

FilterArgs == {arg \in PageArgs : arg.form # "undefined"}

\* "", "/", "/posts", "/posts/", "/posts//", "/posts?", "/posts/45",
\* "/posts/45/", "/forum_topics", "/forum_topics/3/", "/users"
PagePaths ==
    {<<>>, <<"/">>, <<"/", "posts">>, <<"/", "posts", "/">>,
     <<"/", "posts", "/", "/">>, <<"/", "posts", "?">>,
     <<"/", "posts", "/", "45">>, <<"/", "posts", "/", "45", "/">>,
     <<"/", "forum_topics">>, <<"/", "forum_topics", "/", "3", "/">>,
     <<"/", "users">>}

InitPage ==
    /\ cls = "RE6Module"
    /\ \E arg \in PageArgs : constraint = Constructor(arg)
    /\ path \in PagePaths
    /\ initialized = FALSE
    /\ enabled = Undefined
    /\ settings = None
    /\ stored = None
    /\ thumbAttr = None
    /\ ops = <<>>
    /\ last = NoRet
    /\ hotkeys = <<>>
    /\ table = NoEntries
    /\ instance = [c \in Classes |-> 0]
    /\ objects = <<>>
    /\ listeners = <<>>
    /\ NoElements
    /\ Untouched

NextPage ==
    \/ \E arg \in FilterArgs : MatchesCall(arg)
    \/ CanInitialize
    \/ \E b \in {"true", "false"} : SetEnabled(b)

SpecPage == InitPage /\ [][NextPage]_vars

(***************************************************************************)
(* SpecStatic: the static methods called on the three classes, in any      *)
(* order.                                                                  *)
(***************************************************************************)
InitStatic ==
    /\ cls = "RE6Module"
    /\ constraint = <<>>
    /\ path = <<"/", "posts">>
    /\ initialized = FALSE
    /\ enabled = Undefined
    /\ settings = None
    /\ stored = None
    /\ thumbAttr = None
    /\ ops = <<>>
    /\ last = NoRet
    /\ hotkeys = <<>>
    /\ table = NoEntries
    /\ instance = [c \in Classes |-> 0]
    /\ objects = <<>>
    /\ listeners = <<>>
    /\ NoElements
    /\ Untouched

NextStatic ==
    \/ \E c \in Classes : GetInstance(c)
    \/ \E c \in Classes, event \in Events, callback \in Callbacks : On(c, event, callback)
    \/ \E c \in Classes, event \in Events : Off(c, event)
    \/ \E c \in Classes, event \in Events, data \in EventData : Trigger(c, event, data)

SpecStatic == InitStatic /\ [][NextStatic]_vars

(***************************************************************************)
(* SpecEnabled: every method that loads or changes the settings, next to   *)
(* prepare() and setEnabled(), on a module of the base class.              *)
(***************************************************************************)
InitEnabled ==
    /\ cls = "RE6Module"
    /\ constraint = <<>>
    /\ path = <<"/", "posts">>
    /\ initialized = FALSE
    /\ enabled = Undefined
    /\ settings = None
    /\ stored \in InitStored
    /\ thumbAttr = None
    /\ ops = <<>>
    /\ last = NoRet
    /\ hotkeys = <<>>
    /\ table = NoEntries
    /\ instance = [c \in Classes |-> 0]
    /\ objects = <<>>
    /\ listeners = <<>>
    /\ NoElements
    /\ Untouched

NextEnabled ==
    \/ \E b \in {"true", "false"} : SetEnabled(b)
    \/ Prepare
    \/ RefreshSettings
    \/ \E property \in EnabledArgs : PushSettings(property)
    \/ ClearSettings
    \/ FetchSettingsFresh("enabled")
    \/ ResetHotkeys
    \/ \E i \in 1..Len(ops) : StorageGet(i)
    \/ \E i \in 1..Len(ops) : StorageGetRejects(i)
    \/ \E i \in 1..Len(ops) : LoadSettingsCache(i)
    \/ \E i \in 1..Len(ops) : PrepareThen(i)
    \/ \E i \in 1..Len(ops) : PushThen(i)
    \/ \E i \in 1..Len(ops) : StorageSet(i)
    \/ \E i \in 1..Len(ops) : PushSettle(i)
    \/ \E i \in 1..Len(ops) : StorageDelete(i)
    \/ \E i \in 1..Len(ops) : ClearThen(i)
    \/ \E i \in 1..Len(ops) : FreshThen(i)
    \/ \E i \in 1..Len(ops) : ResetThen(i)

SpecEnabled == InitEnabled /\ [][NextEnabled]_vars

(***************************************************************************)
(* SpecRebind: resets of the hotkeys while the settings that hold the key  *)
(* combinations are pushed anew, on a page that matches the module's       *)
(* constraint and on one that does not.                                    *)
(***************************************************************************)
\* the key combinations pushed for hotkeyA: "b", "a" and "a|b"
RebindArgs ==
    {[hotkeyA |-> <<"b">>], [hotkeyA |-> <<"a">>], [hotkeyA |-> <<"a", "|", "b">>]}

InitRebind ==
    /\ cls = "RE6Module"
    /\ \E arg \in ConstructorArgs(cls) : constraint = Constructor(arg)
    /\ path = <<"/", "posts">>
    /\ initialized = FALSE
    /\ enabled = Undefined
    /\ settings = None
    /\ stored \in {None, Some([hotkeyA |-> <<"a", "|", "b">>, hotkeyB |-> <<"b">>])}
    /\ thumbAttr = None
    /\ ops = <<>>
    /\ last = NoRet
    /\ hotkeys = <<>>
    /\ table = NoEntries
    /\ instance = [c \in Classes |-> 0]
    /\ objects = <<>>
    /\ listeners = <<>>
    /\ NoElements
    /\ Untouched

NextRebind ==
    \/ ResetHotkeys
    \/ \E binding \in Bindings : RegisterHotkeys(binding)
    \/ \E property \in RebindArgs : PushSettings(property)
    \/ \E i \in 1..Len(ops) : StorageGet(i)
    \/ \E i \in 1..Len(ops) : StorageGetRejects(i)
    \/ \E i \in 1..Len(ops) : LoadSettingsCache(i)
    \/ \E i \in 1..Len(ops) : ResetThen(i)
    \/ \E i \in 1..Len(ops) : PushThen(i)
    \/ \E i \in 1..Len(ops) : StorageSet(i)
    \/ \E i \in 1..Len(ops) : PushSettle(i)

SpecRebind == InitRebind /\ [][NextRebind]_vars

(***************************************************************************)
(* SpecAlias: SmartAlias on a post page, with and without the edit link    *)
(* and a tag input: the module controller creating and destroying it, the  *)
(* user clicking the edit link, focusing the input and typing, the timers. *)
(* SpecAliasFair: a timeout that is pending fires, and so does an interval *)
(* that is running.                                                        *)
(***************************************************************************)
InitAlias ==
    /\ cls = "SmartAlias"
    /\ \E arg \in ConstructorArgs(cls) : constraint = Constructor(arg)
    /\ path = <<"/", "posts", "/", "45", "/">>
    /\ initialized = FALSE
    /\ enabled = Undefined
    /\ settings = None
    /\ stored = None
    /\ thumbAttr = None
    /\ ops = <<>>
    /\ last = NoRet
    /\ hotkeys = <<>>
    /\ table = NoEntries
    /\ instance = [c \in Classes |-> 0]
    /\ objects = <<>>
    /\ listeners = <<>>
    /\ editLink \in BOOLEAN
    /\ tagInput \in {None} \cup {Some(el) : el \in TagInputs}
    /\ val \in IF tagInput = None THEN {<<>>} ELSE Texts
    /\ focused = FALSE
    /\ article = FALSE
    /\ Untouched

NextAlias ==
    \/ Create
    \/ Destroy
    \/ EditLinkClick
    \/ RebuildFire
    \/ Focus
    \/ FocusOut
    \/ \E text \in Texts : Type(text)
    \/ \E c \in 1..MaxClosures : Tick(c)
    \/ \E c \in 1..MaxClosures : TimeoutFire(c)
    \/ \E c \in 1..MaxClosures, outcome \in {"ok", "reject"} : RunEnds(c, outcome)

SpecAlias == InitAlias /\ [][NextAlias]_vars

SpecAliasFair ==
    /\ SpecAlias
    /\ WF_vars(RebuildFire)
    /\ \A c \in 1..MaxClosures : WF_vars(Tick(c))

(***************************************************************************)
(* SpecThumb: ThumbnailEnhancer on a search page with one thumbnail: the   *)
(* settings are loaded, create() enhances the thumbnail, the user clicks   *)
(* and double-clicks its link, hover actions are paused and resumed.       *)
(***************************************************************************)
InitThumb ==
    /\ cls = "ThumbnailEnhancer"
    /\ \E arg \in ConstructorArgs(cls) : constraint = Constructor(arg)
    /\ path = <<"/", "posts">>
    /\ initialized = FALSE
    /\ enabled = Undefined
    /\ settings = None
    /\ stored = None
    /\ thumbAttr = None
    /\ ops = <<>>
    /\ last = NoRet
    /\ hotkeys = <<>>
    /\ table = NoEntries
    /\ instance = [c \in Classes |-> 0]
    /\ objects = <<>>
    /\ listeners = <<>>
    /\ editLink = FALSE
    /\ tagInput = None
    /\ val = <<>>
    /\ focused = FALSE
    /\ article = TRUE
    /\ Untouched

NextThumb ==
    \/ Prepare
    \/ \E i \in 1..Len(ops) : StorageGet(i)
    \/ \E i \in 1..Len(ops) : LoadSettingsCache(i)
    \/ \E i \in 1..Len(ops) : PrepareThen(i)
    \/ Create
    \/ \E paused \in BOOLEAN : PauseHoverActions(paused)
    \/ \E button \in Buttons, onVote \in BOOLEAN : Press(button, onVote)
    \/ \E button \in Buttons, onVote \in BOOLEAN : SecondPress(button, onVote)
    \/ \E p \in [id : 1..MaxEvents, thumb : 1..MaxThumbs] : TimerFire(p)

SpecThumb == InitThumb /\ [][NextThumb]_vars

(***************************************************************************)
(* Claims                                                                  *)
(***************************************************************************)
\* the enabled value of the record a load would produce now
StoredEnabled == Get(loadSettingsValues(cls, stored), "enabled")

\* C1: in every reachable state canInitialize() returns true exactly when the
\* module is not initialized, the page matches its constraint set and the
\* cached enabled flag is true; a call of canInitialize() leaves the flags,
\* the cache, the storage and the operations in flight as they were.
C1_CanInitializeIsPure ==
    /\ [](canInitialize = "true" <=>
            (~initialized /\ pageMatchesFilter /\ enabled = "true"))
    /\ [](last.op = "canInitialize" =>
            (last.result = "true" <=>
                (~initialized /\ pageMatchesFilter /\ enabled = "true")))
    /\ [][last'.op = "canInitialize" =>
            UNCHANGED <<initialized, enabled, settings, stored, thumbAttr, ops>>]_vars

\* C1 witness: canInitialize() has just returned true on a prepared module
C1_Witness ==
    /\ last.op = "canInitialize"
    /\ last.result = "true"
    /\ ~initialized
    /\ pageMatchesFilter
    /\ settings # None

\* C2: for a module whose page matches and whose settings have enabled = true:
\* after prepare() canInitialize() is true; after create() it is false and
\* stays false under setEnabled, prepare, pushSettings and refreshSettings;
\* after the next destroy() it is true again.
C2_CanInitializeLifecycle ==
    /\ []((pageMatchesFilter /\ StoredEnabled = "true" /\ settings # None) =>
            /\ (last.op = "prepare" /\ last.result = "void" /\ last.solo
                    /\ ~initialized) => canInitialize = "true"
            /\ (last.op = "create" /\ last.result = "void" /\ enabled # Undefined) =>
                  canInitialize # "true")
    /\ [][(pageMatchesFilter /\ StoredEnabled = "true" /\ settings # None
                /\ enabled # Undefined /\ initialized) =>
            /\ (canInitialize # "true"
                    /\ last'.op \in {"setEnabled", "prepare", "pushSettings",
                                     "refreshSettings"}) => canInitialize' # "true"
            /\ last'.op = "destroy" => canInitialize' = "true"]_vars

\* C3: every module class runs the base flag update as part of create():
\* immediately after create() returns, isInitialized() is true and
\* canInitialize() is false.
C3_CreateSetsInitialized ==
    (last.op = "create" /\ last.result = "void") =>
        (isInitialized /\ canInitialize # "true")

\* C4: the record loadSettingsValues loads holds every property of the
\* stored record with the stored value and every default property missing
\* from it with the default value, and nothing else; a backfill of the loaded
\* record changes nothing; with nothing stored the loaded record is the
\* default record.
C4_BackfillKeepsStored ==
    (last.op = "refreshSettings" /\ last.result = "true") =>
        LET D == getDefaultSettings(cls)
            L == settings[1]
        IN  /\ stored = None => L = D
            /\ stored # None =>
                  /\ DOMAIN L = (DOMAIN stored[1]) \cup (DOMAIN D)
                  /\ \A k \in DOMAIN stored[1] : L[k] = stored[1][k]
                  /\ \A k \in (DOMAIN D) \ (DOMAIN stored[1]) : L[k] = D[k]
            /\ Backfill(D, L) = L

\* C4 witness: a load of a stored record that sets a default property to a
\* non-default value, lacks a default property and holds a property with no default
C4_Witness ==
    /\ last.op = "refreshSettings"
    /\ last.result = "true"
    /\ stored # None
    /\ Get(stored[1], "enabled") = "false"
    /\ "a" \in DOMAIN stored[1]
    /\ \E k \in DOMAIN getDefaultSettings(cls) : k \notin DOMAIN stored[1]

C6_PushKeepsCacheKeys ==
    (last.op = "pushSettings" /\ last.result = "true" /\ last.solo
        /\ last.before # None) =>
        /\ \A k \in (DOMAIN last.before[1]) \ (DOMAIN last.arg) :
              /\ fetchSettings(settings, k) = last.before[1][k]
              /\ Get(stored[1], k) = last.before[1][k]
        /\ (cls = "RE6Module" /\ last.before = Some([enabled |-> "true", a |-> "1"])
                /\ last.arg = [b |-> "2"]) =>
              /\ settings = Some([enabled |-> "true", a |-> "1", b |-> "2"])
              /\ stored = Some([enabled |-> "true", a |-> "1", b |-> "2"])

\* C6 (amended): an awaited pushSettings reloads the cache from storage before
\* it merges: the record it hands to storage, and the cache, are the
\* backfilled stored record with the named properties assigned; when it
\* resolves to true the cache and the stored record are equal and hold the
\* pushed values.  {b: 2} pushed on RE6Module while {enabled: true, a: 1} is
\* stored gives {enabled: true, a: 1, b: 2}.
C6_PushReloadsThenMerges ==
    /\ \A i \in 1..Len(ops) :
          (ops[i].kind = "pushSettings" /\ ops[i].solo /\ ops[i].pc = "set") =>
              /\ settings = ops[i].sent
              /\ ops[i].sent = Some(Assign(loadSettingsValues(cls, stored), ops[i].arg))
              /\ (cls = "RE6Module" /\ stored = Some([enabled |-> "true", a |-> "1"])
                      /\ ops[i].arg = [b |-> "2"]) =>
                    ops[i].sent = Some([enabled |-> "true", a |-> "1", b |-> "2"])
    /\ (last.op = "pushSettings" /\ last.result = "true" /\ last.solo) =>
          /\ settings = stored
          /\ \A k \in DOMAIN last.arg : Get(stored[1], k) = last.arg[k]
          /\ \A k \in DOMAIN getDefaultSettings(cls) : k \in DOMAIN stored[1]

\* C6 witness: {b: 2} pushed after {a: 1}, both awaited and resolved to true
C6_Witness ==
    /\ cls = "RE6Module"
    /\ last.op = "pushSettings"
    /\ last.result = "true"
    /\ last.solo
    /\ last.arg = [b |-> "2"]
    /\ last.before = Some([enabled |-> "true", a |-> "1"])
    /\ settings = Some([enabled |-> "true", a |-> "1", b |-> "2"])
    /\ stored = settings

\* C7: after a clearSettings() that no other operation overlapped has
\* resolved, no record is stored, the cache is the default record and
\* fetchSettings(x) returns the default of x, or undefined without one.
C7_ClearRestoresDefaults ==
    (last.op = "clearSettings" /\ last.result = "true" /\ last.solo) =>
        /\ stored = None
        /\ settings = Some(getDefaultSettings(cls))
        /\ \A x \in FetchKeys :
              fetchSettings(settings, x) = Get(getDefaultSettings(cls), x)

C9_ClearReportsFailure ==
    (last.op = "clearSettings") =>
        /\ last.io \in {"fail", "reject"} => last.result = "false"
        /\ last.result = "true" => last.io = "ok"

\* C10: fetchSettingsGently(k) returns the stored value of k, or the default
\* of k when the stored record has none (undefined without a default), and
\* neither its call nor its completion changes the cache, the enabled flag
\* or the stored record.
C10_GentlyLeavesCache ==
    /\ [](last.op = "fetchSettingsGently" /\ last.result # "rejected" =>
            last.result =
                IF stored # None /\ last.key \in DOMAIN stored[1]
                THEN stored[1][last.key]
                ELSE Get(getDefaultSettings(cls), last.key))
    /\ [][(\/ last'.op = "fetchSettingsGently"
           \/ /\ Len(ops') > Len(ops)
              /\ ops'[Len(ops')].kind = "fetchSettingsGently") =>
            UNCHANGED <<settings, enabled, stored, initialized>>]_vars

\* C10 witness: fetchSettingsGently returned a value that differs from the
\* one the cache holds
C10_Witness ==
    /\ last.op = "fetchSettingsGently"
    /\ last.result # "rejected"
    /\ settings # None
    /\ fetchSettings(settings, last.key) # last.result

\* the properties named by an array of properties
Entries(property) == {property[j] : j \in 1..Len(property)}

\* C11 (as claimed): fetchSettings without fresh returns what the cache
\* holds and touches neither the cache nor storage; the array form returns an
\* object with exactly the requested properties; fetchSettings(k, true)
\* replaces the cache with the backfilled stored record and resolves to the
\* value of k in that record.
C11_FreshReturnsLoaded ==
    /\ [](last.op = "fetchSettings" =>
            last.result = fetchSettings(settings, last.key))
    /\ [](last.op = "fetchSettingsArray" /\ settings # None =>
            /\ DOMAIN last.result = Entries(last.key)
            /\ \A k \in Entries(last.key) : last.result[k] = Get(settings[1], k))
    /\ [][last'.op \in {"fetchSettings", "fetchSettingsArray"} =>
            UNCHANGED <<settings, stored, enabled, initialized, ops>>]_vars
    /\ [][\A i \in 1..Len(ops) :
            (ops[i].kind = "fetchSettingsFresh" /\ ops[i].pc = "get"
                /\ Len(ops') = Len(ops) /\ ops'[i].pc = "loaded") =>
                ops'[i].snap = Some(loadSettingsValues(cls, stored))]_vars
    /\ [](last.op = "fetchSettingsFresh" /\ last.result # "pending" =>
            /\ last.read # None
            /\ last.result = Get(last.read[1], last.key))

\* C11 (amended): the same, where fetchSettings(k, true) resolves to the
\* value of k in the record it loaded when no other settings operation of
\* the module overlaps it; in every case it resolves to the value of k in
\* the cache at the time it resolves.
C11_SoloFreshReturnsLoaded ==
    /\ [](last.op = "fetchSettings" =>
            last.result = fetchSettings(settings, last.key))
    /\ [](last.op = "fetchSettingsArray" /\ settings # None =>
            /\ DOMAIN last.result = Entries(last.key)
            /\ \A k \in Entries(last.key) : last.result[k] = Get(settings[1], k))
    /\ [][last'.op \in {"fetchSettings", "fetchSettingsArray"} =>
            UNCHANGED <<settings, stored, enabled, initialized, ops>>]_vars
    /\ [][\A i \in 1..Len(ops) :
            (ops[i].kind = "fetchSettingsFresh" /\ ops[i].pc = "get"
                /\ Len(ops') = Len(ops) /\ ops'[i].pc = "loaded") =>
                ops'[i].snap = Some(loadSettingsValues(cls, stored))]_vars
    /\ [](last.op = "fetchSettingsFresh" /\ last.result # "pending" =>
            /\ last.read # None
            /\ last.result = fetchSettings(settings, last.key)
            /\ last.solo =>
                  /\ settings = last.read
                  /\ last.result = Get(last.read[1], last.key))

\* C11 witness: a fresh fetch that nothing overlapped returned the value
\* another context wrote, which the cache did not hold
C11_Witness ==
    /\ last.op = "fetchSettingsFresh"
    /\ last.solo
    /\ last.key = "a"
    /\ last.result = "9"
    /\ stored = Some([enabled |-> "true", a |-> "9"])

\* C12: getSavedSettings() resolves to name = "re621." + settingsTag and
\* data = the stored record as it is, the empty record when nothing is
\* stored, with no default backfilled; neither its call nor its completion
\* changes the cache, the enabled flag or the stored record.
C12_SavedSettingsAsStored ==
    /\ [](last.op = "getSavedSettings" /\ last.io = "ok" =>
            /\ last.result.name = <<"re621.", cls>>
            /\ last.result.data = IF stored = None THEN EmptyRecord ELSE stored[1])
    /\ [][(\/ last'.op = "getSavedSettings"
           \/ /\ Len(ops') > Len(ops)
              /\ ops'[Len(ops')].kind = "getSavedSettings") =>
            UNCHANGED <<settings, enabled, stored, initialized>>]_vars

\* C12 witness: getSavedSettings returned a stored record that lacks a
\* default property while the cache holds the backfilled record
C12_Witness ==
    /\ last.op = "getSavedSettings"
    /\ last.io = "ok"
    /\ stored # None
    /\ "enabled" \notin DOMAIN last.result.data
    /\ settings # None
    /\ Get(settings[1], "enabled") = "true"

\* the key combinations binding j is configured with in the cache: the
\* segments of its setting that are not empty
SegmentsOf(j) ==
    LET segments == Split(settings[1][hotkeys[j].keys])
    IN  {segments[h] : h \in 1..Len(segments)} \ {<<>>}

\* the last declared binding configured with the key combination
LastBindingOf(segment) ==
    CHOOSE j \in 1..Len(hotkeys) :
        /\ segment \in SegmentsOf(j)
        /\ \A h \in (j + 1)..Len(hotkeys) : segment \notin SegmentsOf(h)

\* C13 (as claimed): after resetHotkeys() completes, for every declared
\* binding and every non-empty segment of its configured combo string the
\* table maps the segment to the binding's handler if the page matches and
\* to a no-op otherwise; the empty string is never registered.
C13_EverySegmentBound ==
    /\ <<>> \notin DOMAIN table
    /\ (last.op = "resetHotkeys" /\ last.result = "void") =>
          \A j \in 1..Len(hotkeys) : \A segment \in SegmentsOf(j) :
              /\ segment \in DOMAIN table
              /\ table[segment] =
                    IF pageMatchesFilter THEN hotkeys[j].fnct ELSE "noop"

\* C13 (amended): after resetHotkeys() completes, every non-empty segment
\* of the configured combo string of a declared binding is in the table,
\* mapped to a no-op if the page does not match and otherwise to the handler
\* of the last declared binding configured with that segment; the empty
\* string is never registered.
C13_SegmentBoundToLastBinding ==
    /\ <<>> \notin DOMAIN table
    /\ (last.op = "resetHotkeys" /\ last.result = "void") =>
          \A j \in 1..Len(hotkeys) : \A segment \in SegmentsOf(j) :
              /\ segment \in DOMAIN table
              /\ table[segment] =
                    IF pageMatchesFilter
                    THEN hotkeys[LastBindingOf(segment)].fnct
                    ELSE "noop"

\* C13 witness: a reset on a matching page with the binding configured as
\* "a||b" has registered a and b, and nothing else
C13_Witness ==
    /\ last.op = "resetHotkeys"
    /\ last.result = "void"
    /\ pageMatchesFilter
    /\ hotkeys = <<[keys |-> "hotkeyA", fnct |-> "fnA"]>>
    /\ settings[1]["hotkeyA"] = <<"a", "|", "|", "b">>
    /\ table = [k \in {<<"a">>, <<"b">>} |-> "fnA"]

\* C14: after resetHotkeys() completes, the segments of the declared
\* bindings are bound to real handlers exactly when the page matches the
\* constraint, whatever the enabled flag, the stored enabled setting and the
\* initialized flag are.
C14_ArmingByPageMatchAlone ==
    (last.op = "resetHotkeys" /\ last.result = "void") =>
        \A j \in 1..Len(hotkeys) : \A segment \in SegmentsOf(j) :
            /\ segment \in DOMAIN table
            /\ pageMatchesFilter =>
                  table[segment] \in {hotkeys[h].fnct : h \in 1..Len(hotkeys)}
            /\ ~pageMatchesFilter => table[segment] = "noop"

\* C14 witness: a module that is disabled, in its flag and in storage, and
\* not initialized, has its handler armed on a page that matches
C14_Witness ==
    /\ last.op = "resetHotkeys"
    /\ last.result = "void"
    /\ enabled = "false"
    /\ StoredEnabled = "false"
    /\ ~initialized
    /\ pageMatchesFilter
    /\ Len(hotkeys) > 0
    /\ <<"b">> \in DOMAIN table
    /\ table[<<"b">>] # "noop"

\* the path with one trailing "/" or "?" taken off
PathStripped ==
    IF path # <<>> /\ path[Len(path)] \in {"/", "?"}
    THEN SubSeq(path, 1, Len(path) - 1)
    ELSE path

\* C15: Page.matches(P) is true exactly when at least one pattern of P
\* matches the path with one trailing "/" or "?" stripped, so it is false for
\* the empty sequence; a module constructed with no constraint or an empty
\* constraint set matches every page; one pattern given to the constructor,
\* or to Page.matches, behaves as the sequence of that one pattern.
C15_ConstraintMatching ==
    /\ last.op = "Page.matches" =>
          /\ last.result = "true" <=>
                \E i \in 1..Len(last.key.pats) : Test(last.key.pats[i], PathStripped)
          /\ last.key.pats = <<>> => last.result = "false"
    /\ \A p \in Patterns :
          /\ PageMatches(<<p>>, path) = Test(p, PathStripped)
          /\ Constructor([form |-> "regexp", pats |-> <<p>>]) = <<p>>
          /\ Constructor([form |-> "array", pats |-> <<p>>]) = <<p>>
    /\ Constructor([form |-> "undefined", pats |-> <<>>]) = <<>>
    /\ Constructor([form |-> "array", pats |-> <<>>]) = <<>>
    /\ constraint = <<>> => pageMatchesFilter
    /\ constraint # <<>> =>
          (pageMatchesFilter <=>
              \E i \in 1..Len(constraint) : Test(constraint[i], PathStripped))
    /\ (/\ TestSearch(<<"/", "posts">>) /\ TestSearch(<<>>)
        /\ ~TestSearch(<<"/", "posts", "/", "45">>)
        /\ TestPost(<<"/", "posts", "/", "45">>) /\ ~TestPost(<<"/", "posts">>))

\* C15 witness: on "/posts/45/" Page.matches of search and post is true
\* while the module constructed with search alone does not match
C15_Witness ==
    /\ last.op = "Page.matches"
    /\ last.key = [form |-> "array", pats |-> <<"search", "post">>]
    /\ last.result = "true"
    /\ path = <<"/", "posts", "/", "45", "/">>
    /\ constraint = <<"search">>
    /\ ~pageMatchesFilter

\* C16: getInstance() on class C returns an instance of C, the one C itself
\* holds: the first call constructs it and every later call returns the
\* same, whatever was called before on C, on other classes or on the class
\* C extends; two classes never share an instance.
C16_SingletonPerClass ==
    /\ [](last.op = "getInstance" =>
            /\ objects[last.result] = last.key
            /\ instance[last.key] = last.result)
    /\ [][\A c \in Classes :
            /\ instance[c] # 0 => instance'[c] = instance[c]
            /\ (last'.op = "getInstance" /\ last'.key = c /\ Lookup(c) # 0) =>
                  last'.result = Lookup(c)]_vars

\* the callbacks subscribed through c.on(event, ...) since the last
\* c.off(event), in the order subscribed
Subscribed(c, event) ==
    LET Keep(l) == l.by = c /\ l.event = event
        kept == SelectSeq(listeners, Keep)
    IN  [j \in 1..Len(kept) |-> kept[j].callback]

\* C17: C.trigger(e, data) invokes, once each and in subscription order,
\* exactly the callbacks subscribed through C.on(e, ...) since the last
\* C.off(e), each with data; callbacks subscribed on another class or under
\* another event name are not invoked, and after C.off(e) none is until a
\* new C.on(e, ...).
C17_TriggerInvokesOwnSubscribers ==
    /\ [](last.op = "trigger" =>
            /\ Len(last.result) = Len(Subscribed(last.key, last.arg.event))
            /\ \A j \in 1..Len(last.result) :
                  /\ last.result[j].callback =
                        Subscribed(last.key, last.arg.event)[j]
                  /\ last.result[j].data = last.arg.data)
    /\ [](last.op = "off" => Subscribed(last.key, last.arg.event) = <<>>)
    /\ [][last'.op = "off" =>
            \A c \in Classes, event \in Events :
                (c # last'.key \/ event # last'.arg.event) =>
                    Subscribed(c, event)' = Subscribed(c, event)]_vars

\* C18: setEnabled(b) changes the enabled flag alone: afterwards isEnabled()
\* is b, while the stored record, the cache with its enabled property, the
\* initialized flag, the declared bindings and the hotkey table are as before.
C18_SetEnabledFlagOnly ==
    [][last'.op = "setEnabled" =>
        /\ isEnabled' = last'.key
        /\ UNCHANGED <<stored, settings, initialized, hotkeys, table, ops>>]_vars

\* C18 witness: setEnabled(false) has returned on an initialized module whose
\* cache holds enabled = true and whose hotkeys are registered
C18_Witness ==
    /\ last.op = "setEnabled"
    /\ last.key = "false"
    /\ isEnabled = "false"
    /\ initialized
    /\ settings # None
    /\ Get(settings[1], "enabled") = "true"
    /\ table # NoEntries

\* C19: a load of the cache that settles leaves the cache equal to the
\* record it read, whatever other loads and pushes assigned while it was
\* waiting: of overlapping loads the one that resumes last decides the cache.
C19_LastLoadDecidesCache ==
    (last.op = "refreshSettings" /\ last.result = "true") =>
        /\ last.read # None
        /\ settings = last.read

\* C19 witness: a load that overlapped a push of a = 1 has settled after
\* it; the push wrote a = 1 to storage, nothing is in flight and the cache
\* has no a
C19_Witness ==
    /\ last.op = "refreshSettings"
    /\ last.result = "true"
    /\ ~last.solo
    /\ ops = <<>>
    /\ stored # None
    /\ Get(stored[1], "a") = "1"
    /\ fetchSettings(settings, "a") = Undefined

\* C20 (as claimed): pushSettings merges into the cache as it stands when
\* the call is made: every property the cache held before the call and the
\* push does not name is still in the cache afterwards, and in the stored
\* record once the write succeeded, also a property that was in the cache
\* and not in storage.
C20_PushMergesIntoCacheAtCall ==
    (last.op = "pushSettings" /\ last.solo /\ last.before # None
        /\ last.io \in {"ok", "fail"}) =>
        \A k \in (DOMAIN last.before[1]) \ (DOMAIN last.arg) :
            /\ fetchSettings(settings, k) = last.before[1][k]
            /\ last.io = "ok" => Get(stored[1], k) = last.before[1][k]

\* C20 (amended): pushSettings merges into the record it reloads from
\* storage: afterwards the cache holds the pushed properties, the properties
\* of the stored record and the defaults, and no other; a property that was
\* in the cache and not in storage is gone from the cache, and is not
\* persisted.
C20_PushMergesIntoStoredRecord ==
    (last.op = "pushSettings" /\ last.solo /\ last.io \in {"ok", "fail"}) =>
        /\ \A k \in DOMAIN settings[1] :
              \/ k \in DOMAIN last.arg /\ settings[1][k] = last.arg[k]
              \/ stored # None /\ k \in DOMAIN stored[1] /\ settings[1][k] = stored[1][k]
              \/ /\ k \in DOMAIN getDefaultSettings(cls)
                 /\ settings[1][k] = getDefaultSettings(cls)[k]
        /\ \A k \in DOMAIN loadSettingsValues(cls, stored) : k \in DOMAIN settings[1]
        /\ last.io = "ok" => stored = settings

\* C20 witness: a push of b = 2, made while the cache held a = 1 that storage
\* did not, has settled and the cache has no a
C20_Witness ==
    /\ last.op = "pushSettings"
    /\ last.solo
    /\ last.io = "ok"
    /\ last.arg = [b |-> "2"]
    /\ last.before # None
    /\ Get(last.before[1], "a") = "1"
    /\ fetchSettings(settings, "a") = Undefined
    /\ fetchSettings(settings, "b") = "2"


\* C21: every pushSettings hands storage a record that holds the properties
\* it pushed, with the values it pushed: the merge and the call of setValue
\* are one step.  (That two overlapping pushes both succeed and storage ends
\* without the property of one of them is the state of the witness.)
C21_WriteCarriesOwnKeys ==
    \A i \in 1..Len(ops) :
        (ops[i].kind = "pushSettings" /\ ops[i].pc = "set") =>
            /\ ops[i].sent # None
            /\ \A k \in DOMAIN ops[i].arg :
                  /\ k \in DOMAIN ops[i].sent[1]
                  /\ ops[i].sent[1][k] = ops[i].arg[k]

\* C21 witness: the push of b = 2 has resolved with success after its write,
\* nothing is in flight, and the stored record holds a = 1 and no b: the
\* overlapping push of a = 1 wrote its record, read before b was there, over
\* the record with b, and resolved with success before
C21_Witness ==
    /\ last.op = "pushSettings"
    /\ last.arg = [b |-> "2"]
    /\ last.io = "ok"
    /\ last.result = "true"
    /\ ~last.solo
    /\ ops = <<>>
    /\ stored # None
    /\ Get(stored[1], "a") = "1"
    /\ Get(stored[1], "enabled") = "true"
    /\ "b" \notin DOMAIN stored[1]


\* C22 (as claimed): the enabled flag changes only in a step in which
\* prepare() completes or setEnabled() returns, and when prepare() has
\* completed isEnabled() is the enabled value of the backfilled stored record.
C22_EnabledFromStoredRecord ==
    /\ [][enabled' # enabled => last'.op \in {"prepare", "setEnabled"}]_vars
    /\ [](last.op = "prepare" /\ last.result = "void" => isEnabled = StoredEnabled)

\* C22 (amended): the enabled flag changes only in a step in which prepare()
\* completes or setEnabled() returns; when prepare() has completed
\* isEnabled() is the enabled value of the cache, whatever setEnabled() set
\* before, and that is the enabled value of the backfilled stored record
\* when the prepare() overlapped no other operation.
C22_EnabledFromCache ==
    /\ [][enabled' # enabled => last'.op \in {"prepare", "setEnabled"}]_vars
    /\ [](last.op = "prepare" /\ last.result = "void" =>
            /\ isEnabled = fetchSettings(settings, "enabled")
            /\ last.solo => isEnabled = StoredEnabled)

\* C22 witness: a prepare() that overlapped nothing has completed on a
\* module whose stored record has enabled = false
C22_Witness ==
    /\ last.op = "prepare"
    /\ last.result = "void"
    /\ last.solo
    /\ stored # None
    /\ isEnabled = "false"
    /\ StoredEnabled = "false"


\* the key combinations the declared bindings are configured with in the
\* cache (a binding whose setting is undefined has none)
CurrentCombos ==
    IF settings = None THEN {}
    ELSE UNION {SegmentsOf(j) : j \in {h \in 1..Len(hotkeys) :
                                          hotkeys[h].keys \in DOMAIN settings[1]}}

\* C23: no step removes a key combination from the table, and a step adds
\* an entry or changes its handler only when it is a resetHotkeys() that
\* resumes and the combination is one the declared bindings are configured
\* with in the cache at that moment; every other entry keeps its handler.
C23_ResetKeepsOtherEntries ==
    [][/\ DOMAIN table \subseteq DOMAIN table'
       /\ \A k \in DOMAIN table' :
            (k \notin DOMAIN table \/ table'[k] # table[k]) =>
                /\ last'.op = "resetHotkeys"
                /\ k \in CurrentCombos]_vars

\* C23 witness: a reset has completed with hotkeyA configured as "b" alone,
\* and a, armed by an earlier reset, is still bound to the handler of hotkeyA
C23_Witness ==
    /\ last.op = "resetHotkeys"
    /\ last.result = "void"
    /\ hotkeys = <<[keys |-> "hotkeyA", fnct |-> "fnA"]>>
    /\ settings[1]["hotkeyA"] = <<"b">>
    /\ <<"a">> \in DOMAIN table
    /\ table[<<"a">>] = "fnA"
    /\ table[<<"b">>] = "fnA"


\* C24: when destroy() has returned on a module that was initialized,
\* nothing that create() attached is left: no focus or focusout handler on
\* the tag input, no interval running, no timeout pending, no one-shot
\* handler on #post-edit-link and no <smart-alias> container; destroy() on a
\* module that is not initialized changes nothing.
C24_DestroyUndoesCreate ==
    /\ [][(last'.op = "destroy" /\ initialized) =>
            /\ ~initialized'
            /\ handlers' = <<>>
            /\ oneShot' = <<>>
            /\ containers' = 0
            /\ \A c \in 1..Len(closures') :
                  ~closures'[c].interval /\ ~closures'[c].timeout]_vars
    /\ [][(last'.op = "destroy" /\ ~initialized) =>
            UNCHANGED <<initialized, alias>>]_vars


\* C25: a click on #post-edit-link while the module is initialized destroys
\* it in the same step, removes every armed one-shot handler and sets a
\* timeout for each; a timeout that fires creates the module with a fresh
\* one-shot handler; no one-shot handler fires twice; and after such a click
\* the module is eventually initialized again with a one-shot handler armed.
C25_EditLinkRebuild ==
    /\ []((initialized /\ editLink) => oneShot # <<>>)
    /\ [](Len(fires) = guid /\ \A g \in 1..Len(fires) : fires[g] <= 1)
    /\ [][(last'.op = "click" /\ initialized) =>
            /\ ~initialized'
            /\ oneShot' = <<>>
            /\ rebuilds' = rebuilds + Len(oneShot)
            /\ rebuilds' > 0]_vars
    /\ [][last'.op = "rebuild" =>
            /\ initialized'
            /\ rebuilds' = rebuilds - 1
            /\ oneShot' = Append(oneShot, guid')
            /\ guid' = guid + 1
            /\ fires'[guid'] = 0]_vars
    /\ (last.op = "click" /\ last.key = "true") ~> (initialized /\ oneShot # <<>>)

\* C25 witness: the timeout set by a click on the edit link has fired: the
\* first one-shot handler has fired once and is gone, the module is
\* initialized again and the second one-shot handler is armed
C25_Witness ==
    /\ last.op = "rebuild"
    /\ initialized
    /\ rebuilds = 0
    /\ oneShot = <<2>>
    /\ fires = <<1, 0>>


\* C26: in every closure of create at most one handleTagInput is in
\* progress or scheduled, and processingInput is set while one is; a timeout
\* is set only by a tick that finds processingInput false and sets it; a tick
\* that finds processingInput true changes nothing; and while the interval
\* runs, a value that differs from the one last seen when no run is under way
\* is taken over by a later tick.
C26_OneRunPerInput ==
    /\ [](\A c \in 1..Len(closures) :
            /\ closures[c].run + (IF closures[c].timeout THEN 1 ELSE 0) <= 1
            /\ (closures[c].run > 0 \/ closures[c].timeout) => closures[c].processingInput)
    /\ [][\A c \in 1..Len(closures) :
            /\ (closures'[c].timeout /\ ~closures[c].timeout) =>
                  /\ last'.op = "tick"
                  /\ ~closures[c].processingInput
                  /\ closures'[c].processingInput
            /\ (closures'[c].run > closures[c].run) =>
                  /\ last'.op = "timeout"
                  /\ closures[c].processingInput
            /\ (last'.op = "tick" /\ closures[c].processingInput) =>
                  closures'[c] = closures[c]]_vars
    /\ \A c \in 1..MaxClosures :
          (/\ c <= Len(closures)
           /\ closures[c].interval
           /\ ~closures[c].processingInput
           /\ getInputValue # closures[c].inputValue)
          ~> (/\ c <= Len(closures)
              /\ (~closures[c].interval \/ closures[c].inputValue = getInputValue))

\* C26 witness: the first run has ended, and a tick has taken over the value
\* y typed meanwhile and scheduled the one debounced run
C26_Witness ==
    /\ last.op = "tick"
    /\ focused
    /\ Len(closures) = 1
    /\ closures[1].interval
    /\ closures[1].processingInput
    /\ closures[1].timeout
    /\ closures[1].run = 0
    /\ closures[1].inputValue = <<"y">>
    /\ getInputValue = <<"y">>


\* an event of the left button, not on a vote button, hover actions not paused
Plain(e) == e.button = 0 /\ ~e.onVote /\ ~e.paused

\* C27: when the link of an enhanced thumbnail has received click, click,
\* dblclick (left button, not on a vote button, hover actions not paused) and
\* the timeouts have settled, the link has not been followed, one tab has
\* been opened and prevent is false; a single click after that follows the
\* link, once, when its timeout fires.
C27_DoubleClickSuppressed ==
    /\ (/\ Len(events) = 3
        /\ \A j \in 1..3 : Plain(events[j])
        /\ events[3].type = "dblclick") =>
          /\ navigated = 0
          /\ tabs = 1
          /\ pending = {} => \A t \in 1..Len(thumbs) : ~thumbs[t].prevent
    /\ (/\ Len(events) = 4
        /\ \A j \in 1..4 : Plain(events[j])
        /\ events[3].type = "dblclick"
        /\ pending = {}) =>
          /\ navigated = 1
          /\ tabs = 1

=============================================================================
